---- MODULE Spec2Model ----
(***************************************************************************)
(* Gladix: the kernel/user shared ring (kernel producer push_bytes, user   *)
(* consumer read_next), the rundown gate (callback_guard), the callback    *)
(* registration orchestrator (register_all) and the driver life cycle      *)
(* (driver_entry, device-control requests, driver_unload).                 *)
(*                                                                         *)
(* The specifications share the variables:                                 *)
(*   SpecRing    one producer thread and one consumer on a mapped ring     *)
(*   SpecRingOps SpecRing with skip_all and a re-map of the section        *)
(*   SpecFrame   one frame pushed and read back at every offset            *)
(*   SpecGuard   the callback_guard API driven by a teardown thread and    *)
(*               worker threads                                            *)
(*   SpecIngest  SEND_HOOK_EVENT requests while the rundown is completed   *)
(*   SpecDispatch create, close and device-control requests of any code  *)
(*   SpecHooks   the hooking library: install_all, uninstall_all, CallGuard*)
(*   SpecCleanup the agent's ConsoleCleanup                                *)
(*   SpecMap     map, unmap and re-map of the section by the driver        *)
(*   SpecGuardFree the callback_guard API with set/clear at any time       *)
(*   SpecGuardFair SpecGuard with holders that leave and a wait that returns*)
(*   SpecCallbacks registry_callback, process_notify and the registry filter*)
(*   SpecHooksAny SpecHooks with lists that name a target more than once   *)
(*   SpecComms   get_device_handle called from several threads             *)
(*   SpecScan    the scanner worker's ScanCache                            *)
(*   Spec       the driver: load, callbacks on arbitrary threads, ingest   *)
(*              and pre-unload requests, unload                            *)
(***************************************************************************)
EXTENDS Integers, Sequences, FiniteSets, TLC

VARIABLES
    shm,        \* the SECTION: Header {head, tail, dropped, size} and the data region
    kring,      \* kernel MemoryRing {base (mapped or null), data_size}
    uring,      \* user MemoryRing {size, tail} (private consumer cursor)
    pc,         \* per kernel thread: position inside the handler it runs
    loc,        \* per kernel thread: locals of the handler it runs
    cpc,        \* consumer position inside read_next
    chead,      \* consumer local: the head loaded at the start of read_next
    lastRead,   \* what the last completed consumer call returned
    pushLog,    \* payloads handed to push_bytes, in call order
    readLog,    \* payloads returned by read_next, in order
    drained,    \* read_next returned none with no push in progress, and no push since
    build,      \* build profile of the user agent: overflow checks on (debug) or off
    RING_PTR,   \* callbacks::common::RING_PTR
    RUNDOWN_PTR,\* callback_guard::RUNDOWN_PTR
    ACTIVE,     \* callback_guard::ACTIVE
    rundown,    \* the EX_RUNDOWN_REF of the device extension
    scope,      \* per thread: the callback_guard::Scope it holds
    tdpc,       \* SpecGuard teardown thread position
    blocked,    \* SpecGuard: the last wait_for_zero call found a count other than 0
    drv,        \* driver image state: "unloaded", "entry" and "entry_rollback" (inside
                \* driver_entry with the process family registered), "loaded", "bugcheck"
    devExt,     \* device extension (owner of ring mapping and rundown object)
    device,     \* the device object exists
    symlink,    \* the DOS symbolic link exists
    cb_mask,    \* DeviceExtension.cb_mask
    osReg,      \* callback families currently registered with the OS
    regLog,     \* OS calls made by the last register_all, in order
    regRet,     \* what the last register_all returned ("pending" while it runs)
    unregLog,   \* per thread: unregistration calls of its UNREGISTER_CALLBACKS request
    entryRet,   \* what the last driver_entry returned ("pending" while it runs)
    irp,        \* per thread: completion of its last device-control request
    prepared,   \* an UNREGISTER_CALLBACKS request has returned success
    uaf,        \* a thread touched the ring or rundown object after it was dropped
    loads,      \* number of driver_entry calls so far
    env,        \* hooked process: code of the targets as loaded, which pages accept a
                \* protection change, whether TlsAlloc gave a slot
    tmem,       \* hooked process: current bytes at each target function
    prot,       \* hooked process: protection of each code page
    gw,         \* hooked process: gateway buffers allocated so far (bytes, freed)
    hspec,      \* HookManager.spec
    live,       \* HookManager.live
    orig,       \* per HookEntry: the gateway stored through orig_ptr
    mgr,        \* position of the thread that runs install_all / uninstall_all
    hpos,       \* index of the loop of install_all / uninstall_all
    preinstall, \* per live hook: bytes and page protection of its target before Hook::new
    tls,        \* per thread of the hooked process: the value in the TLS slot is non-null
    frames,     \* per thread: what CallGuard::enter returned in each nested detour frame
    fired,      \* agent: CleanupInner.fired
    handlers,   \* agent: console handler threads that have not yet called fire_once
    events,     \* agent: console control events delivered so far
    mainPc,     \* agent: position of the main thread that owns ConsoleCleanup
    triggers,   \* agent: explicit trigger() calls so far
    cleaner,    \* agent: the threads spawned by fire_once, each spawned or done
    note,       \* callbacks: the notification the OS delivers to a callback routine
    cbres,      \* callbacks: what the routine did with it (status, events pushed)
    DEVICE_HANDLE_RAW, \* hooking-lib comms::DEVICE_HANDLE_RAW
    dhandles,   \* comms: the device handles CreateFileW has returned, each open or closed
    gpc,        \* comms: per thread, its position inside get_device_handle and its handle
    gret,       \* comms: per thread, what its last get_device_handle call returned
    gcalls,     \* comms: get_device_handle calls started so far
    cache,      \* scanner worker: its ScanCache {map, order}
    files,      \* scanner: the metadata the file system reports for each path
    updLog,     \* scanner: the paths handed to ScanCache::update, in call order
    lastScan    \* scanner: what the last scan_one call saw and did

hookVars    == <<env, tmem, prot, gw, hspec, live, orig, mgr, hpos, preinstall, tls, frames>>
cleanupVars == <<fired, handlers, events, mainPc, triggers, cleaner>>
\* state of the user-mode processes besides the consumer's ring
callVars    == <<note, cbres>>
commsVars   == <<DEVICE_HANDLE_RAW, dhandles, gpc, gret, gcalls>>
scanVars    == <<cache, files, updLog, lastScan>>
libVars     == <<callVars, commsVars, scanVars>>
userVars    == <<build, hookVars, cleanupVars, libVars>>
ringVars   == <<shm, kring, uring, cpc, chead, lastRead, pushLog, readLog, drained, userVars>>
thrVars    == <<pc, loc>>
guardVars  == <<RUNDOWN_PTR, ACTIVE, rundown, scope, tdpc, blocked>>
driverVars == <<RING_PTR, drv, devExt, device, symlink, cb_mask, osReg, regLog, regRet,
                unregLog, entryRet, irp, prepared, uaf, loads>>
vars == <<ringVars, thrVars, guardVars, driverVars>>

(***************************************************************************)
(* Bounds of the model.                                                    *)
(***************************************************************************)
\* capacity of the data region (SHARED_SECTION_SIZE is 1 MiB in the program)
Cap == 8
\* number of push_bytes calls in one behaviour of SpecRing
MaxPush == 3

NULL == "null"
\* kernel threads that run callbacks and device-control requests
Threads == {"t1", "t2"}
\* threads that enter the rundown gate
Workers == {"t1", "t2", "t3"}
Producer == "t1"

\* payload bytes: a payload of length n tagged b is b, b+1, ..., b+n-1
TagBytes == {65, 97}
MkPayload(n, b) == [i \in 1..n |-> (b + i - 1) % 256]
\* lengths 0 .. Cap-2 cover the empty payload, the exact fit Cap-4 and the oversizes
\* Cap-3 and Cap-2
Payloads == {MkPayload(n, b) : n \in 0..(Cap - 2), b \in TagBytes}
\* what a read past the end of the data region can return (bytes after the region
\* in the mapped view)
OobBytes == {0, 119}

Min(a, b) == IF a <= b THEN a ELSE b

(***************************************************************************)
(* Kernel producer: MemoryRing::push_bytes                                 *)
(***************************************************************************)
\* (payload_len as u32).to_le_bytes()
to_le_bytes(n) ==
    <<n % 256, (n \div 256) % 256, (n \div 65536) % 256, (n \div 16777216) % 256>>

\* u32::from_le_bytes (the bytes of the model are below 128, so the value stays
\* below 2^31)
from_le_bytes(b) == b[1] + 256 * b[2] + 65536 * b[3] + 16777216 * b[4]

\* frame_total that forgets the 4-byte length prefix
frame_total_without_prefix(payload) == Len(payload)

frame_total(payload) == 4 + Len(payload)

used_before(head, tail, cap) == IF head >= tail THEN head - tail ELSE cap - (tail - head)

free_before(head, tail, cap) == cap - used_before(head, tail, cap)

\* push_bytes up to its decision: "null" (unmapped), "too_large", "no_space" or "write"
\* push_admit without the null check of the base
push_admit_ignoring_base(base, cap, head, tail, payload) ==
    IF frame_total(payload) > cap THEN "too_large"
    ELSE IF free_before(head, tail, cap) < frame_total(payload) THEN "no_space"
    ELSE "write"

push_admit(base, cap, head, tail, payload) ==
    IF ~base THEN "null"
    ELSE IF frame_total(payload) > cap THEN "too_large"
    ELSE IF free_before(head, tail, cap) < frame_total(payload) THEN "no_space"
    ELSE "write"

\* the nested copy_circular of push_bytes: src written at off with wrap-around
push_copy_circular(d, cap, off, src) ==
    LET len    == Len(src)
        to_end == cap - off
        first  == Min(len, to_end)
        rem    == len - first
    IN  IF len = 0 THEN d
        ELSE [i \in DOMAIN d |->
                IF i >= off /\ i < off + first THEN src[i - off + 1]
                ELSE IF i < rem THEN src[first + i + 1]
                ELSE d[i]]

\* push_bytes lines 324-326: the length prefix (LE) is copied to head
push_write_prefix(d, cap, head, payload) ==
    push_copy_circular(d, cap, head, to_le_bytes(Len(payload)))

\* push_write_payload that copies the payload to head, over the length prefix
push_write_payload_over_prefix(d, cap, head, payload) ==
    push_copy_circular(d, cap, head, payload)

\* push_bytes lines 328-330: the payload is copied behind the prefix
push_write_payload(d, cap, head, payload) ==
    LET after_len == (head + 4) % cap
    IN  push_copy_circular(d, cap, after_len, payload)

\* the data region after one uninterrupted push_bytes has made both copies at head
push_write(d, cap, head, payload) ==
    push_write_payload(push_write_prefix(d, cap, head, payload), cap, head, payload)

\* new_head without the reduction modulo the capacity
new_head_no_wrap(head, payload, cap) == head + frame_total(payload)

new_head(head, payload, cap) == (head + frame_total(payload)) % cap

\* push_bytes that makes room by moving tail over the whole backlog when a frame does
\* not fit
push_bytes_drop_oldest(m, base, cap, payload) ==
    LET adm == push_admit(base, cap, m.head, m.tail, payload)
    IN  IF adm = "null" THEN m
        ELSE IF adm \in {"too_large", "no_space"}
             THEN [m EXCEPT !.dropped = @ + 1, !.tail = m.head]
        ELSE [m EXCEPT !.data = push_write(@, cap, m.head, payload),
                       !.head = new_head(m.head, payload, cap)]

\* push_bytes that rejects a frame without counting it
push_bytes_silent_drop(m, base, cap, payload) ==
    LET adm == push_admit(base, cap, m.head, m.tail, payload)
    IN  IF adm = "write"
        THEN [m EXCEPT !.data = push_write(@, cap, m.head, payload),
                       !.head = new_head(m.head, payload, cap)]
        ELSE m

\* push_bytes run to completion on section memory m by a ring with the given base
push_bytes(m, base, cap, payload) ==
    LET adm == push_admit(base, cap, m.head, m.tail, payload)
    IN  IF adm = "null" THEN m
        ELSE IF adm \in {"too_large", "no_space"}
             THEN [m EXCEPT !.dropped = @ + 1]
        ELSE [m EXCEPT !.data = push_write(@, cap, m.head, payload),
                       !.head = new_head(m.head, payload, cap)]

(***************************************************************************)
(* User consumer: MemoryRing::read_next, skip_all, copy_circular           *)
(***************************************************************************)
\* one byte at linear offset a from the start of the data region
mem_at(d, size, a, oob) == IF a < size THEN d[a] ELSE oob

\* copy_circular: n bytes starting at off, as [panic, bytes]. `size - off` underflows
\* when off > size: with overflow checks the subtraction panics, without them it
\* wraps to a huge value, so the whole remainder is copied linearly from base + off.
RECURSIVE copy_circular(_, _, _, _, _, _)
copy_circular(d, size, off, n, checks, oob) ==
    IF n = 0 THEN [panic |-> FALSE, bytes |-> <<>>]
    ELSE IF off > size
         THEN IF checks THEN [panic |-> TRUE, bytes |-> <<>>]
              ELSE [panic |-> FALSE,
                    bytes |-> [i \in 1..n |-> mem_at(d, size, off + i - 1, oob)]]
    ELSE LET to_end == size - off
             chunk  == Min(n, to_end)
             rest   == copy_circular(d, size, (off + chunk) % size, n - chunk, checks, oob)
         IN  [panic |-> rest.panic,
              bytes |-> [i \in 1..chunk |-> mem_at(d, size, off + i - 1, oob)] \o rest.bytes]

\* self.size.saturating_sub(LEN_PREFIX)
max_len(size) == IF size >= 4 THEN size - 4 ELSE 0

available(tail, head, size) == IF tail <= head THEN head - tail ELSE size - tail + head

\* read_next after the head load: [kind, out, tail]; kind is "none" (caught up),
\* "resync", "partial", "frame" or "panic"
read_next(d, size, tail, head, checks, oob) ==
    IF tail = head THEN [kind |-> "none", out |-> <<>>, tail |-> tail]
    ELSE
    LET tmp == copy_circular(d, size, tail, 4, checks, oob)
        len == from_le_bytes(tmp.bytes)
        out == copy_circular(d, size, tail + 4, len, checks, oob)
    IN  IF tmp.panic THEN [kind |-> "panic", out |-> <<>>, tail |-> tail]
        ELSE IF len = 0 \/ len > max_len(size)
        THEN [kind |-> "resync", out |-> <<>>, tail |-> head]
        ELSE IF available(tail, head, size) < len + 4
        THEN [kind |-> "partial", out |-> <<>>, tail |-> tail]
        ELSE IF out.panic THEN [kind |-> "panic", out |-> <<>>, tail |-> tail]
        ELSE [kind |-> "frame", out |-> out.bytes, tail |-> (tail + 4 + len) % size]

\* skip_all: tail = head
skip_all(head) == head

(***************************************************************************)
(* Mapping: MemoryRing::map (kernel) and MemoryRing::open (user)           *)
(***************************************************************************)
ZeroData == [i \in 0..(Cap - 1) |-> 0]
\* a freshly created SECTION is zero-filled
ZeroShm == [head |-> 0, tail |-> 0, dropped |-> 0, size |-> 0, data |-> ZeroData]

\* map() that initialises the header whatever it finds
\* map() that also initialises a header whose cursors are equal
map_init_on_empty(m, data_size) ==
    LET need_init == m.size # data_size \/ m.head = m.tail
    IN  IF need_init
        THEN [m EXCEPT !.head = 0, !.tail = 0, !.dropped = 0, !.size = data_size]
        ELSE m

map_always_init(m, data_size) ==
    [m EXCEPT !.head = 0, !.tail = 0, !.dropped = 0, !.size = data_size]

\* the header initialisation of map()
map(m, data_size) ==
    LET need_init == m.size # data_size \/ (m.head = 0 /\ m.tail = 0 /\ m.size = 0)
    IN  IF need_init
        THEN [m EXCEPT !.head = 0, !.tail = 0, !.dropped = 0, !.size = data_size]
        ELSE m

\* MemoryRing::open: size and the initial tail snapshot come from the header
open(m) == [size |-> m.size, tail |-> m.tail]

(***************************************************************************)
(* Thread locals                                                           *)
(***************************************************************************)
NoLoc == [payload |-> <<>>, head |-> 0, origin |-> "none"]

\* where a thread continues when push_bytes returns: the ingest request still has
\* to release the rundown protection, everything else returns to its caller
AfterPush(origin) == IF origin = "hook" THEN "release" ELSE "idle"

\* push_bytes lines 263-306 run by thread t: admission against the loaded cursors
PushEnter(t, payload, origin) ==
    LET adm == push_admit(kring.base, kring.data_size, shm.head, shm.tail, payload)
    IN  IF adm = "write"
        THEN /\ pc' = [pc EXCEPT ![t] = "write"]
             /\ loc' = [loc EXCEPT ![t] = [payload |-> payload, head |-> shm.head,
                                           origin |-> origin]]
             /\ shm' = shm
        ELSE /\ pc' = [pc EXCEPT ![t] = AfterPush(origin)]
             /\ loc' = [loc EXCEPT ![t] = [NoLoc EXCEPT !.origin =
                                             IF origin = "hook" THEN "hook" ELSE "none"]]
             /\ shm' = push_bytes(shm, kring.base, kring.data_size, payload)

\* push_bytes lines 324-326: the first copy_circular writes the length prefix. The
\* copies take no lock, so another thread's copies may fall between the two
PushWritePrefix(t) ==
    /\ pc[t] = "write"
    /\ shm' = [shm EXCEPT !.data = push_write_prefix(@, kring.data_size, loc[t].head,
                                                      loc[t].payload)]
    /\ pc' = [pc EXCEPT ![t] = "payload"]
    /\ UNCHANGED loc

\* push_bytes lines 328-330: the second copy_circular writes the payload
PushWritePayload(t) ==
    /\ pc[t] = "payload"
    /\ shm' = [shm EXCEPT !.data = push_write_payload(@, kring.data_size, loc[t].head,
                                                       loc[t].payload)]
    /\ pc' = [pc EXCEPT ![t] = "publish"]
    /\ UNCHANGED loc

\* push_bytes lines 324-330: the two copies of one thread, each a step of its own
PushWrite(t) == PushWritePrefix(t) \/ PushWritePayload(t)

\* push_bytes lines 332-344: the new head is stored
PushPublish(t) ==
    /\ pc[t] = "publish"
    /\ shm' = [shm EXCEPT !.head = new_head(loc[t].head, loc[t].payload, kring.data_size)]
    /\ pc' = [pc EXCEPT ![t] = AfterPush(loc[t].origin)]
    /\ loc' = [loc EXCEPT ![t] = [NoLoc EXCEPT !.origin =
                                    IF loc[t].origin = "hook" THEN "hook" ELSE "none"]]

InPush(t) == pc[t] \in {"write", "payload", "publish"}

(***************************************************************************)
(* SpecRing: one producer, one consumer                                    *)
(***************************************************************************)
RingPush(payload) ==
    /\ pc[Producer] = "idle"
    /\ Len(pushLog) < MaxPush
    /\ PushEnter(Producer, payload, "ring")
    /\ pushLog' = Append(pushLog, payload)
    /\ drained' = FALSE
    /\ UNCHANGED <<kring, uring, cpc, chead, lastRead, readLog, userVars>>
    /\ UNCHANGED <<guardVars, driverVars>>

RingPushWrite ==
    /\ PushWrite(Producer)
    /\ UNCHANGED <<kring, uring, cpc, chead, lastRead, pushLog, readLog, drained, userVars>>
    /\ UNCHANGED <<guardVars, driverVars>>

RingPushPublish ==
    /\ PushPublish(Producer)
    /\ UNCHANGED <<kring, uring, cpc, chead, lastRead, pushLog, readLog, drained, userVars>>
    /\ UNCHANGED <<guardVars, driverVars>>

\* read_next lines 141-144: the head load and the caught-up test
ReadBegin ==
    /\ cpc = "idle"
    /\ chead' = shm.head
    /\ IF uring.tail = shm.head
       THEN /\ lastRead' = "none"
            /\ drained' = (pc[Producer] = "idle")
            /\ cpc' = cpc
       ELSE /\ cpc' = "loaded"
            /\ UNCHANGED <<lastRead, drained>>
    /\ UNCHANGED <<shm, kring, uring, pushLog, readLog, userVars, thrVars>>
    /\ UNCHANGED <<guardVars, driverVars>>

\* read_next lines 146-183: prefix, sanity test, payload copy, tail store
ReadFinish ==
    /\ cpc = "loaded"
    /\ \E oob \in OobBytes :
         LET r == read_next(shm.data, uring.size, uring.tail, chead, build, oob)
         IN  /\ lastRead' = r.kind
             /\ cpc' = IF r.kind = "panic" THEN "panicked" ELSE "idle"
             /\ uring' = [uring EXCEPT !.tail = r.tail]
             /\ shm' = IF r.kind \in {"frame", "resync"}
                       THEN [shm EXCEPT !.tail = r.tail] ELSE shm
             /\ readLog' = IF r.kind = "frame" THEN Append(readLog, r.out) ELSE readLog
    /\ UNCHANGED <<kring, chead, pushLog, drained, userVars, thrVars>>
    /\ UNCHANGED <<guardVars, driverVars>>

(***************************************************************************)
(* Rundown gate: callbacks/callback_guard.rs                               *)
(* The EX_RUNDOWN_REF is [completed, count]: the run-down bit and the      *)
(* 63-bit holder count of its one word. ExAcquireRundownProtection fails   *)
(* once the bit is set and adds a holder otherwise. ExRundownCompleted     *)
(* stores the bit alone, so the count becomes 0 whatever it was.           *)
(* ExReleaseRundownProtection takes one holder off while the bit is clear; *)
(* with the bit set it reads the rest of the word as the address of the    *)
(* wait block of a waiter, which is null after ExRundownCompleted: the     *)
(* release of a run-down object is a bugcheck (drv = "bugcheck").          *)
(***************************************************************************)
FreshRundown == [completed |-> FALSE, count |-> 0]

\* acquire() without the completed test of ExAcquireRundownProtection
acquire_ignoring_completed(p, rd, a) ==
    IF p = NULL THEN [ok |-> FALSE, rd |-> rd, active |-> a]
    ELSE [ok |-> TRUE, rd |-> [rd EXCEPT !.count = @ + 1], active |-> a + 1]

\* acquire(): [ok, rd, active] from the published pointer p, the object rd, ACTIVE a
acquire(p, rd, a) ==
    IF p = NULL THEN [ok |-> FALSE, rd |-> rd, active |-> a]
    ELSE IF ~rd.completed
         THEN [ok |-> TRUE, rd |-> [rd EXCEPT !.count = @ + 1],
               active |-> a + 1]
         ELSE [ok |-> FALSE, rd |-> rd, active |-> a]

\* release(): [rd, active, bugcheck]; nothing is released when the pointer reads
\* null. ACTIVE is decremented first; ExReleaseRundownProtection then takes a holder
\* off, or faults on the null wait block of an object that was run down meanwhile
release(p, rd, a) ==
    IF p = NULL THEN [rd |-> rd, active |-> a, bugcheck |-> FALSE]
    ELSE IF rd.completed THEN [rd |-> rd, active |-> a - 1, bugcheck |-> TRUE]
    ELSE [rd |-> [rd EXCEPT !.count = @ - 1], active |-> a - 1, bugcheck |-> FALSE]

\* begin_unload(): ExRundownCompleted on the published object. The OS marks the
\* object run down and forgets the holders it counted
begin_unload(p, rd) == IF p # NULL THEN [completed |-> TRUE, count |-> 0] ELSE rd

\* wait_for_zero() may return: no object published, or the count of
\* ExWaitForRundownProtectionRelease is 0
wait_for_zero(p, rd) == p = NULL \/ rd.count = 0

\* enter(): Scope { acquired: acquire() }
Enter(t) ==
    /\ drv # "bugcheck"
    /\ scope[t] = "none"
    /\ LET r == acquire(RUNDOWN_PTR, rundown, ACTIVE)
       IN  /\ scope' = [scope EXCEPT ![t] = IF r.ok THEN "acquired" ELSE "refused"]
           /\ rundown' = r.rd
           /\ ACTIVE' = r.active
    /\ UNCHANGED <<RUNDOWN_PTR, tdpc, blocked, loads, drv>>

\* Drop for Scope: release() when acquired
ScopeDrop(t) ==
    /\ drv # "bugcheck"
    /\ scope[t] # "none"
    /\ LET r == IF scope[t] = "acquired" THEN release(RUNDOWN_PTR, rundown, ACTIVE)
                ELSE [rd |-> rundown, active |-> ACTIVE, bugcheck |-> FALSE]
       IN  /\ rundown' = r.rd
           /\ ACTIVE' = r.active
           /\ drv' = IF r.bugcheck THEN "bugcheck" ELSE drv
    /\ scope' = [scope EXCEPT ![t] = "none"]
    /\ UNCHANGED <<RUNDOWN_PTR, tdpc, blocked, loads>>

(***************************************************************************)
(* SpecGuard: worker threads enter and leave protected regions while one   *)
(* thread runs the documented life cycle of the gate: init_rundown,        *)
(* set_rundown_ptr, begin_unload, wait_for_zero, clear_rundown_ptr.        *)
(***************************************************************************)
\* number of life cycles (loads) of the gate in one behaviour of SpecGuard
MaxRounds == 2

\* init_rundown + set_rundown_ptr (driver_entry lines 109-110)
GuardPublish ==
    /\ drv # "bugcheck"
    /\ tdpc = "start"
    /\ loads < MaxRounds
    /\ \A t \in Workers : scope[t] = "none"
    /\ loads' = loads + 1
    /\ rundown' = FreshRundown
    /\ RUNDOWN_PTR' = "rundown"
    /\ tdpc' = "published"
    /\ blocked' = FALSE
    /\ UNCHANGED <<ACTIVE, scope, drv>>

GuardBeginUnload ==
    /\ drv # "bugcheck"
    /\ tdpc = "published"
    /\ rundown' = begin_unload(RUNDOWN_PTR, rundown)
    /\ tdpc' = "completed"
    /\ UNCHANGED <<RUNDOWN_PTR, ACTIVE, scope, blocked, loads, drv>>

\* wait_for_zero is called: it blocks in ExWaitForRundownProtectionRelease
GuardWaitCall ==
    /\ drv # "bugcheck"
    /\ tdpc = "completed"
    /\ tdpc' = "waiting"
    /\ blocked' = ~wait_for_zero(RUNDOWN_PTR, rundown)
    /\ UNCHANGED <<RUNDOWN_PTR, ACTIVE, rundown, scope, loads, drv>>

\* wait_for_zero returns
GuardWaitReturn ==
    /\ drv # "bugcheck"
    /\ tdpc = "waiting"
    /\ wait_for_zero(RUNDOWN_PTR, rundown)
    /\ tdpc' = "drained"
    /\ UNCHANGED <<RUNDOWN_PTR, ACTIVE, rundown, scope, blocked, loads, drv>>

\* clear_rundown_ptr
GuardClear ==
    /\ drv # "bugcheck"
    /\ tdpc = "drained"
    /\ RUNDOWN_PTR' = NULL
    /\ tdpc' = "start"
    /\ UNCHANGED <<ACTIVE, rundown, scope, blocked, loads, drv>>

otherThanGuard == <<ringVars, thrVars, RING_PTR, devExt, device, symlink, cb_mask,
                    osReg, regLog, regRet, unregLog, entryRet, irp, prepared, uaf>>

(***************************************************************************)
(* Callback registration orchestrator: callbacks/mod.rs                    *)
(***************************************************************************)
STATUS_SUCCESS == "STATUS_SUCCESS"
\* statuses the OS can return from a registration routine
RegStatuses == {STATUS_SUCCESS, "STATUS_ACCESS_DENIED", "STATUS_INSUFFICIENT_RESOURCES"}

DefaultMask == [proc |-> FALSE, img |-> FALSE, reg |-> FALSE]

Call(op, fam, st) == [op |-> op, fam |-> fam, st |-> st]

\* the OS side of a registration call answered with status st
OsRegister(reg, fam, st) == IF st = STATUS_SUCCESS THEN reg \cup {fam} ELSE reg

\* the OS answer to an unregistration: it succeeds for a registered family
UnregStatus(reg, fam) == IF fam \in reg THEN STATUS_SUCCESS ELSE "STATUS_INVALID_PARAMETER"

OsUnregister(reg, fam) == reg \ {fam}

\* register_all, lines 57-71: set_ring publishes the ring, then process::register is
\* answered with stProc; on a failure clear_ring and the return of that status.
\* [ret, mask, ring_ptr, reg, log], ret "pending" while register_all goes on
register_all_process(reg0, stProc) ==
    [ret |-> IF stProc = STATUS_SUCCESS THEN "pending" ELSE stProc,
     mask |-> [DefaultMask EXCEPT !.proc = (stProc = STATUS_SUCCESS)],
     ring_ptr |-> IF stProc = STATUS_SUCCESS THEN "ring" ELSE NULL,
     reg |-> OsRegister(reg0, "proc", stProc),
     log |-> <<Call("register", "proc", stProc)>>]

\* register_all, lines 74-80 and 102: image_load::register is answered with stImg;
\* on success the mask is returned, the registry block being commented out
register_all_image(r, stImg) ==
    [ret |-> IF stImg = STATUS_SUCCESS THEN STATUS_SUCCESS ELSE "pending",
     mask |-> [r.mask EXCEPT !.img = (stImg = STATUS_SUCCESS)],
     ring_ptr |-> r.ring_ptr,
     reg |-> OsRegister(r.reg, "img", stImg),
     log |-> Append(r.log, Call("register", "img", stImg))]

\* the rollback of register_all that forgets the process family
register_all_no_rollback(r) ==
    [ret |-> r.log[Len(r.log)].st, mask |-> DefaultMask, ring_ptr |-> NULL,
     reg |-> r.reg, log |-> r.log]

\* register_all, lines 81-83, after image_load::register failed: process::unregister,
\* clear_ring and the return of the status image_load::register gave
register_all_rollback(r) ==
    [ret |-> r.log[Len(r.log)].st, mask |-> DefaultMask, ring_ptr |-> NULL,
     reg |-> OsUnregister(r.reg, "proc"),
     log |-> Append(r.log, Call("unregister", "proc", UnregStatus(r.reg, "proc")))]

\* register_all, lines 56-103, run without a callback in between, against an OS that
\* answers stProc and stImg to the two registration calls
register_all(reg0, stProc, stImg) ==
    LET r1 == register_all_process(reg0, stProc)
        r2 == register_all_image(r1, stImg)
    IN  IF stProc # STATUS_SUCCESS THEN r1
        ELSE IF stImg # STATUS_SUCCESS THEN register_all_rollback(r2)
        ELSE r2

\* the families a mask names, in the order registry, image-load, process
MaskOrder(mask) ==
    (IF mask.reg THEN <<"reg">> ELSE <<>>) \o
    (IF mask.img THEN <<"img">> ELSE <<>>) \o
    (IF mask.proc THEN <<"proc">> ELSE <<>>)

RECURSIVE UnregCalls(_, _)
UnregCalls(fams, reg) ==
    IF fams = <<>> THEN <<>>
    ELSE <<Call("unregister", Head(fams), UnregStatus(reg, Head(fams)))>>
         \o UnregCalls(Tail(fams), reg \ {Head(fams)})

SeqToSet(q) == {q[i] : i \in DOMAIN q}

\* unregister_mask, lines 116-127: the families of the mask are unregistered in the
\* order registry, image-load, process, then clear_ring: [reg, log, ring_ptr]
unregister_mask(mask, reg) ==
    [reg |-> reg \ SeqToSet(MaskOrder(mask)),
     log |-> UnregCalls(MaskOrder(mask), reg),
     ring_ptr |-> NULL]

\* unregister_all, lines 141-146: every family, whatever was registered
unregister_all(reg) == unregister_mask([proc |-> TRUE, img |-> TRUE, reg |-> TRUE], reg)

(***************************************************************************)
(* Driver life cycle: lib.rs                                               *)
(***************************************************************************)
\* number of driver loads in one behaviour of Spec
MaxLoads == 2
\* pushes stop being issued in Spec once this many frames were dropped
MaxDrops == 2

\* the first step of driver_entry that fails before the image-load registration, or
\* "none"
EntryFailures == {"device", "ring", "link", "process", "none"}

\* statuses IoCreateDevice, setup_ring and IoCreateSymbolicLink can return
EntryStatuses ==
    {STATUS_SUCCESS, "STATUS_INSUFFICIENT_RESOURCES", "STATUS_OBJECT_NAME_COLLISION"}

\* driver_entry, lines 60-148
\* the error paths of driver_entry without the IoDeleteSymbolicLink of lines 130-131
entry_rollback_keeps_link(stage) ==
    [base |-> FALSE, RUNDOWN_PTR |-> NULL, devExt |-> "rolledback", device |-> FALSE,
     symlink |-> (stage = "callbacks")]

\* what the error path of driver_entry leaves when the given stage fails: lines 92-93
\* (ring: IoDeleteDevice), 115-118 (link: clear_rundown_ptr, drop_in_place,
\* IoDeleteDevice), 130-135 (callbacks: IoDeleteSymbolicLink, then the same)
entry_rollback(stage) ==
    [base |-> FALSE, RUNDOWN_PTR |-> NULL, devExt |-> "rolledback", device |-> FALSE,
     symlink |-> FALSE]

\* driver_entry, lines 60-148, of a newly loaded image (the statics RING_PTR and
\* RUNDOWN_PTR start null) up to the return of process::register inside register_all
\* (mod.rs line 61). Each step that fails returns the status st it was given. Once
\* the process family is registered the OS may deliver process notifications while
\* driver_entry goes on: drv = "entry".
DriverEntry(failAt, st) ==
    /\ drv = "unloaded"
    /\ osReg = {}
    /\ loads < MaxLoads
    /\ \A t \in Threads : pc[t] = "idle"
    /\ (failAt = "none") = (st = STATUS_SUCCESS)
    /\ st \in (IF failAt = "process" THEN RegStatuses ELSE EntryStatuses)
    /\ loads' = loads + 1
    /\ prepared' = FALSE
    /\ IF failAt = "device"
       THEN \* IoCreateDevice failed: nothing was created, st_dev is returned
            /\ entryRet' = st
            /\ RING_PTR' = NULL
            /\ RUNDOWN_PTR' = NULL
            /\ UNCHANGED <<shm, kring, rundown, devExt, device,
                           symlink, cb_mask, osReg, regLog, regRet, drv>>
       ELSE IF failAt = "ring"
       THEN \* setup_ring failed: the device is deleted again
            /\ entryRet' = st
            /\ RING_PTR' = NULL
            /\ RUNDOWN_PTR' = entry_rollback("ring").RUNDOWN_PTR
            /\ kring' = [kring EXCEPT !.base = entry_rollback("ring").base]
            /\ device' = entry_rollback("ring").device
            /\ symlink' = entry_rollback("ring").symlink
            /\ UNCHANGED <<shm, rundown, devExt, cb_mask, osReg, regLog, regRet, drv>>
       ELSE IF failAt = "link"
       THEN \* the ring was mapped and the rundown published, then all is undone
            /\ entryRet' = st
            /\ shm' = map(shm, Cap)
            /\ kring' = [base |-> entry_rollback("link").base, data_size |-> Cap]
            /\ rundown' = FreshRundown
            /\ RING_PTR' = NULL
            /\ RUNDOWN_PTR' = entry_rollback("link").RUNDOWN_PTR
            /\ devExt' = entry_rollback("link").devExt
            /\ device' = entry_rollback("link").device
            /\ symlink' = entry_rollback("link").symlink
            /\ UNCHANGED <<cb_mask, osReg, regLog, regRet, drv>>
       ELSE LET r == register_all_process(osReg, st)
            IN  /\ shm' = map(shm, Cap)
                /\ rundown' = FreshRundown
                /\ regLog' = r.log
                /\ regRet' = r.ret
                /\ osReg' = r.reg
                /\ RING_PTR' = r.ring_ptr
                /\ cb_mask' = DefaultMask
                /\ IF r.ret = "pending"
                   THEN /\ entryRet' = "pending"
                        /\ kring' = [base |-> TRUE, data_size |-> Cap]
                        /\ RUNDOWN_PTR' = "rundown"
                        /\ devExt' = "alive"
                        /\ device' = TRUE
                        /\ symlink' = TRUE
                        /\ drv' = "entry"
                   ELSE /\ entryRet' = r.ret
                        /\ kring' = [base |-> entry_rollback("callbacks").base,
                                      data_size |-> Cap]
                        /\ RUNDOWN_PTR' = entry_rollback("callbacks").RUNDOWN_PTR
                        /\ devExt' = entry_rollback("callbacks").devExt
                        /\ device' = entry_rollback("callbacks").device
                        /\ symlink' = entry_rollback("callbacks").symlink
                        /\ drv' = "unloaded"
    /\ UNCHANGED <<uring, cpc, chead, lastRead, pushLog, readLog, drained, userVars>>
    /\ UNCHANGED <<thrVars, ACTIVE, scope, tdpc, blocked, unregLog, irp, uaf>>

\* what register_all holds between two of its calls: the families registered so far
RegisterAllState ==
    [ret |-> regRet, mask |-> [DefaultMask EXCEPT !.proc = TRUE], ring_ptr |-> RING_PTR,
     reg |-> osReg, log |-> regLog]

\* driver_entry inside register_all, mod.rs lines 74-80, and on success lib.rs lines
\* 124-147: image_load::register is answered with stImg
EntryRegisterImage(stImg) ==
    /\ drv = "entry"
    /\ LET r == register_all_image(RegisterAllState, stImg)
       IN  /\ regLog' = r.log
           /\ regRet' = r.ret
           /\ osReg' = r.reg
           /\ IF r.ret = STATUS_SUCCESS
              THEN /\ cb_mask' = r.mask
                   /\ entryRet' = STATUS_SUCCESS
                   /\ drv' = "loaded"
              ELSE /\ drv' = "entry_rollback"
                   /\ UNCHANGED <<cb_mask, entryRet>>
    /\ UNCHANGED <<shm, kring, uring, cpc, chead, lastRead, pushLog, readLog, drained,
                   userVars>>
    /\ UNCHANGED <<thrVars, guardVars>>
    /\ UNCHANGED <<RING_PTR, devExt, device, symlink, unregLog, irp, prepared, uaf, loads>>

\* driver_entry after image_load::register failed: mod.rs lines 81-83 (the
\* process::unregister returns when no process notification is running, then
\* clear_ring) and lib.rs lines 128-135
EntryRollback ==
    /\ drv = "entry_rollback"
    /\ \A t \in Threads : loc[t].origin # "proc"
    /\ LET r == register_all_rollback(RegisterAllState)
       IN  /\ regLog' = r.log
           /\ regRet' = r.ret
           /\ osReg' = r.reg
           /\ RING_PTR' = r.ring_ptr
           /\ entryRet' = r.ret
    /\ kring' = [base |-> entry_rollback("callbacks").base, data_size |-> Cap]
    /\ RUNDOWN_PTR' = entry_rollback("callbacks").RUNDOWN_PTR
    /\ devExt' = entry_rollback("callbacks").devExt
    /\ device' = entry_rollback("callbacks").device
    /\ symlink' = entry_rollback("callbacks").symlink
    /\ drv' = "unloaded"
    /\ UNCHANGED <<shm, uring, cpc, chead, lastRead, pushLog, readLog, drained, userVars>>
    /\ UNCHANGED <<thrVars, ACTIVE, rundown, scope, tdpc, blocked>>
    /\ UNCHANGED <<cb_mask, unregLog, irp, prepared, uaf, loads>>

\* driver_unload, lines 160-186: the link is removed, the extension dropped (the ring
\* is unmapped) and the device deleted. Nothing is unregistered, completed, drained
\* or cleared here.
DriverUnload ==
    /\ drv = "loaded"
    /\ \A t \in Threads : loc[t].origin # "hook" /\ irp[t].status # "pending"
    /\ symlink' = FALSE
    /\ kring' = [kring EXCEPT !.base = FALSE]
    /\ devExt' = "dropped"
    /\ device' = FALSE
    /\ drv' = "unloaded"
    /\ UNCHANGED <<shm, uring, cpc, chead, lastRead, pushLog, readLog, drained, userVars>>
    /\ UNCHANGED <<thrVars, guardVars>>
    /\ UNCHANGED <<RING_PTR, cb_mask, osReg, regLog, regRet, unregLog, entryRet, irp,
                   prepared, uaf, loads>>

(***************************************************************************)
(* Callback handlers: callbacks/process.rs, image_load.rs, common.rs       *)
(***************************************************************************)
\* filters::should_emit_process_create
should_emit_process_create(pid, image_path) ==
    IF pid < 100 THEN FALSE
    ELSE IF image_path = "" THEN FALSE
    ELSE TRUE

\* filters::should_emit_image_load; the path is given by the noisy tree it lies in
should_emit_image_load(pid, path_class, image_size) ==
    IF pid = 4 THEN FALSE
    ELSE IF path_class = "smss" THEN FALSE
    ELSE IF image_size < 4 * 1024 THEN FALSE
    ELSE IF path_class = "winsxs" THEN FALSE
    ELSE IF path_class = "driverstore" THEN FALSE
    ELSE TRUE

\* notifications the OS delivers to process_notify: [exit, pid, path]
ProcInputs == {[exit |-> TRUE, pid |-> 1234, path |-> ""],
               [exit |-> FALSE, pid |-> 4, path |-> "\\Device\\a.exe"],
               [exit |-> FALSE, pid |-> 1234, path |-> ""],
               [exit |-> FALSE, pid |-> 1234, path |-> "\\Device\\a.exe"]}

\* notifications the OS delivers to load_image_notify: [pid, class, size]
ImgInputs == {[pid |-> 4, class |-> "other", size |-> 8192],
              [pid |-> 1234, class |-> "winsxs", size |-> 8192],
              [pid |-> 1234, class |-> "other", size |-> 8192]}

\* the encoded event (an opaque payload) of each family
EventBytes(fam) == IF fam = "proc" THEN <<80>> ELSE <<73>>

\* push_event after the handler decided to emit: the RING_PTR load, then push_bytes
\* through the pointer. A non-null pointer to a dropped extension is dangling; the
\* read through it either finds the null base left by Drop or faults.
PushEvent(t, fam) ==
    IF RING_PTR = NULL
    THEN UNCHANGED <<shm, pc, loc, uaf, drv>>
    ELSE IF devExt # "alive"
    THEN /\ uaf' = TRUE
         /\ \E fault \in BOOLEAN : drv' = IF fault THEN "bugcheck" ELSE drv
         /\ UNCHANGED <<shm, pc, loc>>
    ELSE /\ PushEnter(t, EventBytes(fam), fam)
         /\ UNCHANGED <<uaf, drv>>

driverRest == <<kring, uring, cpc, chead, lastRead, pushLog, readLog, drained, userVars,
                guardVars, RING_PTR, devExt, device, symlink, cb_mask, osReg, regLog,
                regRet, unregLog, entryRet, irp, prepared, loads>>

\* process_notify, lines 57-88
CbProcess(t, in) ==
    /\ "proc" \in osReg
    /\ drv # "bugcheck"
    /\ pc[t] = "idle"
    /\ shm.dropped < MaxDrops
    /\ IF in.exit \/ ~should_emit_process_create(in.pid, in.path)
       THEN UNCHANGED <<shm, pc, loc, uaf, drv>>
       ELSE PushEvent(t, "proc")
    /\ UNCHANGED driverRest

\* load_image_notify, lines 57-85
CbImage(t, in) ==
    /\ "img" \in osReg
    /\ drv # "bugcheck"
    /\ pc[t] = "idle"
    /\ shm.dropped < MaxDrops
    /\ IF ~should_emit_image_load(in.pid, in.class, in.size)
       THEN UNCHANGED <<shm, pc, loc, uaf, drv>>
       ELSE PushEvent(t, "img")
    /\ UNCHANGED driverRest

\* a thread inside push_bytes continues on a mapped ring
DrvPushWrite(t) ==
    /\ drv # "bugcheck"
    /\ devExt = "alive"
    /\ PushWrite(t)
    /\ UNCHANGED <<uaf, drv>>
    /\ UNCHANGED driverRest

DrvPushPublish(t) ==
    /\ drv # "bugcheck"
    /\ devExt = "alive"
    /\ PushPublish(t)
    /\ UNCHANGED <<uaf, drv>>
    /\ UNCHANGED driverRest

\* a thread inside push_bytes continues after the extension was dropped: it writes
\* through the unmapped base
DrvPushDangling(t) ==
    /\ drv # "bugcheck"
    /\ devExt # "alive"
    /\ InPush(t)
    /\ uaf' = TRUE
    /\ drv' = "bugcheck"
    /\ UNCHANGED <<shm, pc, loc>>
    /\ UNCHANGED driverRest

(***************************************************************************)
(* Device control: communications/ioctl_dispatch.rs                        *)
(***************************************************************************)
\* shared/src/constants.rs
FILE_DEVICE_UNKNOWN == 34
METHOD_BUFFERED == 0
FILE_ANY_ACCESS == 0

\* ctl_code!: (dev << 16) | (access << 14) | (func << 2) | method. The fields passed
\* here do not overlap (func < 2^12, method < 4, access < 4), so the OR is a sum.
ctl_code(dev, func, method, access) == dev * 65536 + access * 16384 + func * 4 + method

IOCTL_GLADIX_GET_SECTION_HANDLE ==
    ctl_code(FILE_DEVICE_UNKNOWN, 2049, METHOD_BUFFERED, FILE_ANY_ACCESS)
IOCTL_GLADIX_SEND_HOOK_EVENT ==
    ctl_code(FILE_DEVICE_UNKNOWN, 2050, METHOD_BUFFERED, FILE_ANY_ACCESS)
IOCTL_GLADIX_UNREGISTER_CALLBACKS ==
    ctl_code(FILE_DEVICE_UNKNOWN, 2051, METHOD_BUFFERED, FILE_ANY_ACCESS)

NoIrp == [code |-> "none", ioctl |-> 0, len |-> 0, status |-> "none", info |-> 0,
          afterPrep |-> FALSE]

\* unregLog[t] lists the unregistration calls of the request thread t serves or served
\* last: a new request starts with none
NoUnregCalls(t) == unregLog' = [unregLog EXCEPT ![t] = <<>>]

\* input buffers of SEND_HOOK_EVENT
HookInputs == {<<>>, <<72>>, <<72, 73>>}

\* handle_send_hook_event, lines 212-234: parameter checks, the rundown acquire on the
\* extension's own object, then push_bytes up to its admission
IngestStart(t, input) ==
    /\ drv = "loaded"
    /\ device
    /\ pc[t] = "idle"
    /\ shm.dropped < MaxDrops
    /\ IF Len(input) = 0
       THEN /\ irp' = [irp EXCEPT ![t] = [code |-> "SEND_HOOK_EVENT",
                         ioctl |-> IOCTL_GLADIX_SEND_HOOK_EVENT, len |-> 0,
                         status |-> "STATUS_INVALID_PARAMETER", info |-> 0,
                         afterPrep |-> prepared]]
            /\ UNCHANGED <<shm, pc, loc, rundown>>
       ELSE IF rundown.completed
       THEN /\ irp' = [irp EXCEPT ![t] = [code |-> "SEND_HOOK_EVENT",
                         ioctl |-> IOCTL_GLADIX_SEND_HOOK_EVENT, len |-> Len(input),
                         status |-> "STATUS_DEVICE_NOT_READY", info |-> 0,
                         afterPrep |-> prepared]]
            /\ UNCHANGED <<shm, pc, loc, rundown>>
       ELSE /\ irp' = [irp EXCEPT ![t] = [code |-> "SEND_HOOK_EVENT",
                         ioctl |-> IOCTL_GLADIX_SEND_HOOK_EVENT, len |-> Len(input),
                         status |-> "pending", info |-> 0, afterPrep |-> prepared]]
            /\ rundown' = [rundown EXCEPT !.count = @ + 1]
            /\ PushEnter(t, input, "hook")
    /\ UNCHANGED <<kring, uring, cpc, chead, lastRead, pushLog, readLog, drained, userVars>>
    /\ UNCHANGED <<RUNDOWN_PTR, ACTIVE, scope, tdpc, blocked>>
    /\ NoUnregCalls(t)
    /\ UNCHANGED <<RING_PTR, drv, devExt, device, symlink, cb_mask, osReg, regLog, regRet,
                   entryRet, prepared, uaf, loads>>

\* handle_send_hook_event, lines 240-243: release, complete with Information = in_len.
\* ExReleaseRundownProtection on an object that was run down since the acquire
\* faults on the null wait block: the request is never completed
IngestRelease(t) ==
    /\ drv = "loaded"
    /\ pc[t] = "release"
    /\ IF rundown.completed
       THEN /\ drv' = "bugcheck"
            /\ UNCHANGED <<rundown, irp, pc, loc>>
       ELSE /\ rundown' = [rundown EXCEPT !.count = @ - 1]
            /\ irp' = [irp EXCEPT ![t].status = STATUS_SUCCESS, ![t].info = irp[t].len]
            /\ pc' = [pc EXCEPT ![t] = "idle"]
            /\ loc' = [loc EXCEPT ![t] = NoLoc]
            /\ drv' = drv
    /\ UNCHANGED ringVars
    /\ UNCHANGED <<RUNDOWN_PTR, ACTIVE, scope, tdpc, blocked>>
    /\ UNCHANGED <<RING_PTR, devExt, device, symlink, cb_mask, osReg, regLog, regRet,
                   unregLog, entryRet, prepared, uaf, loads>>

\* UnregisterFamily that unregisters the family whatever the stored mask says
UnregisterFamily_ignoring_mask(t, fam, log) ==
    /\ \A u \in Threads : loc[u].origin # fam
    /\ osReg' = OsUnregister(osReg, fam)
    /\ unregLog' = [unregLog EXCEPT ![t] =
                       Append(log, Call("unregister", fam, UnregStatus(osReg, fam)))]

\* one unregistration call of the request on thread t when the stored mask names the
\* family. The OS lets the call return only when no callback of that family is still
\* running.
UnregisterFamily(t, fam, log) ==
    IF cb_mask[fam]
    THEN /\ \A u \in Threads : loc[u].origin # fam
         /\ osReg' = OsUnregister(osReg, fam)
         /\ unregLog' = [unregLog EXCEPT ![t] =
                            Append(log, Call("unregister", fam, UnregStatus(osReg, fam)))]
    ELSE /\ osReg' = osReg
         /\ unregLog' = [unregLog EXCEPT ![t] = log]

\* handle_prepare_unload, lines 263-291: the IRQL test, the null tests with their
\* unregister_all, the load of the stored mask and the registry family
PrepareUnload(t, passive) ==
    /\ drv = "loaded"
    /\ pc[t] = "idle"
    /\ IF ~passive
       THEN /\ irp' = [irp EXCEPT ![t] = [code |-> "UNREGISTER_CALLBACKS",
                         ioctl |-> IOCTL_GLADIX_UNREGISTER_CALLBACKS, len |-> 0,
                         status |-> "STATUS_INVALID_DEVICE_STATE", info |-> 0,
                         afterPrep |-> prepared]]
            /\ NoUnregCalls(t)
            /\ UNCHANGED <<osReg, prepared, pc, RING_PTR>>
       ELSE IF ~device \/ devExt = "none"
       THEN /\ \A u \in Threads : loc[u].origin \notin {"reg", "img", "proc"}
            /\ irp' = [irp EXCEPT ![t] = [code |-> "UNREGISTER_CALLBACKS",
                         ioctl |-> IOCTL_GLADIX_UNREGISTER_CALLBACKS, len |-> 0,
                         status |-> STATUS_SUCCESS, info |-> 0, afterPrep |-> prepared]]
            /\ osReg' = unregister_all(osReg).reg
            /\ unregLog' = [unregLog EXCEPT ![t] = unregister_all(osReg).log]
            /\ RING_PTR' = unregister_all(osReg).ring_ptr
            /\ prepared' = TRUE
            /\ pc' = pc
       ELSE /\ irp' = [irp EXCEPT ![t] = [code |-> "UNREGISTER_CALLBACKS",
                         ioctl |-> IOCTL_GLADIX_UNREGISTER_CALLBACKS, len |-> 0,
                         status |-> "pending", info |-> 0, afterPrep |-> prepared]]
            /\ UnregisterFamily(t, "reg", <<>>)
            /\ pc' = [pc EXCEPT ![t] = "unreg_img"]
            /\ UNCHANGED <<prepared, RING_PTR>>
    /\ UNCHANGED <<ringVars, loc, guardVars>>
    /\ UNCHANGED <<drv, devExt, device, symlink, cb_mask, regLog, regRet,
                   entryRet, uaf, loads>>

\* handle_prepare_unload, lines 292-297: the image-load family
PrepareUnloadImage(t) ==
    /\ drv = "loaded"
    /\ pc[t] = "unreg_img"
    /\ UnregisterFamily(t, "img", unregLog[t])
    /\ pc' = [pc EXCEPT ![t] = "unreg_proc"]
    /\ UNCHANGED <<ringVars, loc, guardVars>>
    /\ UNCHANGED <<RING_PTR, drv, devExt, device, symlink, cb_mask, regLog, regRet,
                   entryRet, irp, prepared, uaf, loads>>

\* handle_prepare_unload, lines 298-305: the process family, then the request is
\* completed with success
PrepareUnloadProcess(t) ==
    /\ drv = "loaded"
    /\ pc[t] = "unreg_proc"
    /\ UnregisterFamily(t, "proc", unregLog[t])
    /\ irp' = [irp EXCEPT ![t].status = STATUS_SUCCESS]
    /\ prepared' = TRUE
    /\ pc' = [pc EXCEPT ![t] = "idle"]
    /\ UNCHANGED <<ringVars, loc, guardVars>>
    /\ UNCHANGED <<RING_PTR, drv, devExt, device, symlink, cb_mask, regLog, regRet,
                   entryRet, uaf, loads>>

\* the match of dispatch_device_control on the function number instead of the
\* control code
dispatch_by_function_number(code) ==
    IF code = 2049 THEN "get_section"
    ELSE IF code = 2050 THEN "send_hook"
    ELSE IF code = 2051 THEN "prepare_unload"
    ELSE "unsupported"

\* the match of dispatch_device_control, lines 125-131: the handler a code is routed to
dispatch_device_control(code) ==
    IF code = IOCTL_GLADIX_GET_SECTION_HANDLE THEN "get_section"
    ELSE IF code = IOCTL_GLADIX_SEND_HOOK_EVENT THEN "send_hook"
    ELSE IF code = IOCTL_GLADIX_UNREGISTER_CALLBACKS THEN "prepare_unload"
    ELSE "unsupported"

\* control codes a caller passes: the three of the driver, their neighbours 0x800 and
\* 0x804, the bare function number 0x801, 0x801 with another transfer method, and 0
IoctlCodes ==
    {IOCTL_GLADIX_GET_SECTION_HANDLE, IOCTL_GLADIX_SEND_HOOK_EVENT,
     IOCTL_GLADIX_UNREGISTER_CALLBACKS,
     ctl_code(FILE_DEVICE_UNKNOWN, 2048, METHOD_BUFFERED, FILE_ANY_ACCESS),
     ctl_code(FILE_DEVICE_UNKNOWN, 2052, METHOD_BUFFERED, FILE_ANY_ACCESS),
     ctl_code(FILE_DEVICE_UNKNOWN, 2049, 1, FILE_ANY_ACCESS),
     2049, 0}

\* size_of::<HANDLE>() on the 64-bit target
HandleSize == 8
\* output buffer lengths of GET_SECTION_HANDLE
OutLens == {0, HandleSize}
\* statuses ZwOpenSection can return
OpenStatuses == {STATUS_SUCCESS, "STATUS_OBJECT_NAME_NOT_FOUND"}

requestRest == <<ringVars, thrVars, guardVars, RING_PTR, drv, devExt, device, symlink,
                 cb_mask, osReg, regLog, regRet, entryRet, prepared, uaf, loads>>

\* handle_get_section_handle, lines 153-195
GetSectionHandle(t, code, out_len, st) ==
    /\ irp' = [irp EXCEPT ![t] =
                 [code |-> "GET_SECTION_HANDLE", ioctl |-> code, len |-> 0,
                  status |-> IF out_len < HandleSize THEN "STATUS_BUFFER_TOO_SMALL" ELSE st,
                  info |-> IF out_len >= HandleSize /\ st = STATUS_SUCCESS
                           THEN HandleSize ELSE 0,
                  afterPrep |-> prepared]]
    /\ NoUnregCalls(t)
    /\ UNCHANGED requestRest

\* the default arm of dispatch_device_control, lines 127-130
Unsupported(t, code) ==
    /\ irp' = [irp EXCEPT ![t] =
                 [code |-> "UNSUPPORTED", ioctl |-> code, len |-> 0,
                  status |-> "STATUS_INVALID_PARAMETER", info |-> 0,
                  afterPrep |-> prepared]]
    /\ NoUnregCalls(t)
    /\ UNCHANGED requestRest

\* dispatch_device_control, lines 98-132, on the device of the loaded driver
\* (the request's buffers and the IRQL are chosen per handler)
DeviceControl(t, code) ==
    /\ drv = "loaded"
    /\ device
    /\ pc[t] = "idle"
    /\ LET h == dispatch_device_control(code)
       IN  IF h = "get_section"
             THEN \E out_len \in OutLens, st \in OpenStatuses :
                     GetSectionHandle(t, code, out_len, st)
           ELSE IF h = "send_hook" THEN \E input \in HookInputs : IngestStart(t, input)
           ELSE IF h = "prepare_unload" THEN \E passive \in BOOLEAN : PrepareUnload(t, passive)
           ELSE Unsupported(t, code)

\* dispatch_create, lines 60-66
DispatchCreate(t) ==
    /\ drv = "loaded"
    /\ device
    /\ pc[t] = "idle"
    /\ irp' = [irp EXCEPT ![t] = [code |-> "CREATE", ioctl |-> 0, len |-> 0,
                                  status |-> STATUS_SUCCESS, info |-> 0,
                                  afterPrep |-> prepared]]
    /\ NoUnregCalls(t)
    /\ UNCHANGED requestRest

\* dispatch_close, lines 75-80
DispatchClose(t) ==
    /\ drv = "loaded"
    /\ device
    /\ pc[t] = "idle"
    /\ irp' = [irp EXCEPT ![t] = [code |-> "CLOSE", ioctl |-> 0, len |-> 0,
                                  status |-> STATUS_SUCCESS, info |-> 0,
                                  afterPrep |-> prepared]]
    /\ NoUnregCalls(t)
    /\ UNCHANGED requestRest

(***************************************************************************)
(* Hooking library: Hook::new / Hook::remove, HookManager, CallGuard       *)
(***************************************************************************)
\* hooks.rs, 64-bit target
PATCH_LEN == 13
GATEWAY_LEN == 11
\* slice::from_raw_parts(target, 20)
ScanLen == 20
\* stub.windows(5)
WindowLen == 5

\* number of HookEntry added to the manager
MaxHooks == 3
\* nested detour frames on one thread
MaxDepth == 2

\* exported functions of the loaded module, and the code page each starts in
Funcs == {"NtOpenProcess", "NtWriteVirtualMemory", "NtCreateFile"}
Pages == {"page1", "page2"}
PageOf(f) == IF f = "NtCreateFile" THEN "page2" ELSE "page1"
LoadedDlls == {"ntdll.dll"}
HThreads == {"h1", "h2"}

\* code found at a target: the syscall stub of the OS with its number ...
RealStub(id) ==
    <<76, 139, 209, 184, id, 0, 0, 0, 246, 4, 37, 8, 3, 254, 127, 1, 117, 3, 15, 5,
      195, 205, 46, 195>>
\* ... a stub another product has replaced by a relative jump (no B8 byte) ...
NoMovStub == [i \in 1..24 |-> IF i = 1 THEN 233 ELSE IF i <= 5 THEN 16 * (i - 1) ELSE 204]
\* ... code whose first B8 is the last byte that can start a 5-byte window ...
EdgeStub == [i \in 1..24 |-> IF i < 16 THEN 144 ELSE IF i = 16 THEN 184
                              ELSE IF i = 17 THEN 9 ELSE IF i = 18 THEN 1 ELSE 0]
\* ... code whose first B8 is one byte later ...
LateStub == [i \in 1..24 |-> IF i < 17 THEN 144 ELSE IF i = 17 THEN 184
                              ELSE IF i = 18 THEN 7 ELSE 0]
\* ... and code with two B8 bytes
TwoMovStub == [i \in 1..24 |-> IF i \in {1, 4} THEN 184 ELSE IF i = 2 THEN 1
                                ELSE IF i = 5 THEN 2 ELSE 0]
Stubs == {RealStub(38), NoMovStub, EdgeStub, LateStub, TwoMovStub}

\* the process a hooking DLL is loaded into
Envs ==
    {[code |-> [f \in Funcs |-> IF f = "NtOpenProcess" THEN s
                                 ELSE IF f = "NtWriteVirtualMemory" THEN RealStub(58)
                                 ELSE RealStub(85)],
      protectable |-> [p \in Pages |-> p = "page1" \/ ok],
      tlsOk |-> slot] : s \in Stubs, ok \in BOOLEAN, slot \in BOOLEAN}
DefaultEnv ==
    [code |-> [f \in Funcs |-> RealStub(38)],
     protectable |-> [p \in Pages |-> TRUE],
     tlsOk |-> TRUE]

\* address of the detour of each target (0xB801 has a B8 byte)
DetourOf(f) ==
    IF f = "NtOpenProcess" THEN 4660
    ELSE IF f = "NtWriteVirtualMemory" THEN 47105
    ELSE 22136

\* HookEntry values: the three exports, a name the module does not export, and an
\* export asked of a module that is not loaded
Entries ==
    {[dll |-> "ntdll.dll", func |-> f, detour |-> DetourOf(f)] :
        f \in Funcs \cup {"NtNoSuchExport"}}
    \cup {[dll |-> "missing.dll", func |-> "NtOpenProcess", detour |-> DetourOf("NtOpenProcess")]}

\* manager.spec: up to MaxHooks entries, no function named twice
HookLists ==
    {s \in UNION {[1..n -> Entries] : n \in 0..MaxHooks} :
        \A i, j \in DOMAIN s : s[i].func = s[j].func => i = j}

RECURSIVE le_bytes(_, _)
\* the k low bytes of n, least significant first: (detour as u64).to_le_bytes() and
\* the shifts of make_gateway
le_bytes(n, k) == IF k = 0 THEN <<>> ELSE <<n % 256>> \o le_bytes(n \div 256, k - 1)

\* extract_syscall_id that takes the last mov eax instead of the first
extract_last_syscall_id(stub) ==
    LET hits == {i \in 1..(Len(stub) - WindowLen + 1) : stub[i] = 184}
    IN  IF hits = {} THEN 0
        ELSE LET i == CHOOSE h \in hits : \A o \in hits : o <= h
             IN  from_le_bytes(SubSeq(stub, i + 1, i + 4))

\* extract_syscall_id, lines 69-77: the first 5-byte window that starts with B8
extract_syscall_id(stub) ==
    LET hits == {i \in 1..(Len(stub) - WindowLen + 1) : stub[i] = 184}
    IN  IF hits = {} THEN 0
        ELSE LET i == CHOOSE h \in hits : \A o \in hits : h <= o
             IN  from_le_bytes(SubSeq(stub, i + 1, i + 4))

\* the 64-bit bytes of make_gateway, lines 112-121
gateway_bytes(id) == <<76, 139, 209, 184>> \o le_bytes(id, 4) \o <<15, 5, 195>>

\* make_gateway, lines 100-141: a new buffer holding the stub (VirtualAlloc succeeded)
make_gateway(G, id) ==
    [gw |-> Append(G, [bytes |-> gateway_bytes(id), freed |-> FALSE]), ptr |-> Len(G) + 1]

\* the 64-bit patch of Hook::new, lines 206-218: mov r10, detour ; jmp r10
patch_bytes(detour) == <<73, 186>> \o le_bytes(detour, 8) \o <<65, 255, 226>>

\* ptr::copy_nonoverlapping(src, target, PATCH_LEN)
write_target(code, src) == src \o SubSeq(code, PATCH_LEN + 1, Len(code))

NoHook == [target |-> NULL, detour |-> 0, saved |-> <<>>, gateway |-> 0, old_protect |-> NULL]

\* Hook::new, lines 171-238, on the process memory P = [tmem, prot, gw].
\* ret: "ok", an Err ("err_module", "err_protect") or "panic" (GetProcAddress(..).unwrap()
\* on a missing export, the assert of make_gateway).
Hook_new(P, e, dll, func, detour, allocOk) ==
    IF dll \notin LoadedDlls THEN [ret |-> "err_module", P |-> P, hook |-> NoHook]
    ELSE IF func \notin Funcs THEN [ret |-> "panic", P |-> P, hook |-> NoHook]
    ELSE
      LET saved == SubSeq(P.tmem[func], 1, PATCH_LEN)
          id    == extract_syscall_id(SubSeq(P.tmem[func], 1, ScanLen))
          g     == make_gateway(P.gw, id)
          page  == PageOf(func)
      IN  IF ~allocOk THEN [ret |-> "panic", P |-> P, hook |-> NoHook]
          ELSE IF ~e.protectable[page]
            THEN [ret |-> "err_protect", P |-> [P EXCEPT !.gw = g.gw], hook |-> NoHook]
          ELSE [ret  |-> "ok",
                P    |-> [tmem |-> [P.tmem EXCEPT ![func] = write_target(@, patch_bytes(detour))],
                          prot |-> [P.prot EXCEPT ![page] = "RWX"],
                          gw   |-> g.gw],
                hook |-> [target |-> func, detour |-> detour, saved |-> saved,
                          gateway |-> g.ptr, old_protect |-> P.prot[page]]]

\* Hook::remove that leaves the page writable
Hook_remove_keeps_rwx(P, h) ==
    [tmem |-> [P.tmem EXCEPT ![h.target] = write_target(@, h.saved)],
     prot |-> [P.prot EXCEPT ![PageOf(h.target)] = "RWX"],
     gw   |-> [P.gw EXCEPT ![h.gateway].freed = TRUE]]

\* Hook::remove, lines 246-261 (the page of an installed hook accepts protection changes)
Hook_remove(P, h) ==
    [tmem |-> [P.tmem EXCEPT ![h.target] = write_target(@, h.saved)],
     prot |-> [P.prot EXCEPT ![PageOf(h.target)] = h.old_protect],
     gw   |-> [P.gw EXCEPT ![h.gateway].freed = TRUE]]

kernelVars == <<shm, kring, uring, cpc, chead, lastRead, pushLog, readLog, drained,
                thrVars, guardVars, driverVars>>
hookRest == <<kernelVars, build, cleanupVars, libVars>>
cleanupRest == <<kernelVars, build, hookVars, libVars>>

\* HookManager::install_all, lines 141-153: one iteration of the loop, or its exit.
\* Hook::new(..).unwrap() panics on an Err; a panic leaves the manager as it is.
InstallIter(allocOk) ==
    /\ mgr \in {"idle", "installing"}
    /\ IF hpos = Len(hspec)
         THEN /\ mgr' = "installed"
              /\ hpos' = 0
              /\ UNCHANGED <<tmem, prot, gw, live, orig, preinstall>>
         ELSE LET en == hspec[hpos + 1]
                  r  == Hook_new([tmem |-> tmem, prot |-> prot, gw |-> gw], env,
                                 en.dll, en.func, en.detour, allocOk)
              IN  /\ tmem' = r.P.tmem
                  /\ prot' = r.P.prot
                  /\ gw' = r.P.gw
                  /\ IF r.ret = "ok"
                       THEN /\ live' = Append(live, r.hook)
                            /\ orig' = [orig EXCEPT ![hpos + 1] = r.hook.gateway]
                            /\ preinstall' = Append(preinstall,
                                   [bytes |-> SubSeq(tmem[en.func], 1, PATCH_LEN),
                                    prot  |-> prot[PageOf(en.func)]])
                            /\ hpos' = hpos + 1
                            /\ mgr' = "installing"
                       ELSE /\ mgr' = "panicked"
                            /\ hpos' = 0
                            /\ UNCHANGED <<live, orig, preinstall>>
    /\ UNCHANGED <<env, hspec, tls, frames>>
    /\ UNCHANGED hookRest

\* HookManager::uninstall_all, lines 171-178: one iteration of the loop over live in
\* installation order, or live.clear() at its exit
UninstallIter ==
    /\ mgr \in {"installed", "panicked", "uninstalling"}
    /\ IF hpos = Len(live)
         THEN /\ live' = <<>>
              /\ mgr' = "uninstalled"
              /\ hpos' = 0
              /\ UNCHANGED <<tmem, prot, gw>>
         ELSE LET Q == Hook_remove([tmem |-> tmem, prot |-> prot, gw |-> gw], live[hpos + 1])
              IN  /\ tmem' = Q.tmem
                  /\ prot' = Q.prot
                  /\ gw' = Q.gw
                  /\ hpos' = hpos + 1
                  /\ mgr' = "uninstalling"
                  /\ UNCHANGED live
    /\ UNCHANGED <<env, hspec, orig, preinstall, tls, frames>>
    /\ UNCHANGED hookRest

\* CallGuard::enter that does not look at the slot first
CallGuard_enter_unchecked(flag, slotOk) ==
    IF slotOk THEN [ret |-> "scope", flag |-> TRUE] ELSE [ret |-> "none", flag |-> flag]

\* CallGuard::enter, lines 45-67. TlsGetValue on a slot TlsAlloc did not give returns
\* null, and TlsSetValue on it fails.
CallGuard_enter(flag, slotOk) ==
    IF flag THEN [ret |-> "none", flag |-> flag]
    ELSE IF slotOk THEN [ret |-> "scope", flag |-> TRUE]
    ELSE [ret |-> "none", flag |-> flag]

\* Drop for CallGuard, lines 72-78
CallGuard_drop(flag, slotOk) == IF slotOk THEN FALSE ELSE flag

\* a detour starts on thread t: let guard = CallGuard::enter()
DetourEnter(t) ==
    /\ Len(frames[t]) < MaxDepth
    /\ LET r == CallGuard_enter(tls[t], env.tlsOk)
       IN  /\ tls' = [tls EXCEPT ![t] = r.flag]
           /\ frames' = [frames EXCEPT ![t] = Append(@, r.ret)]
    /\ UNCHANGED <<env, tmem, prot, gw, hspec, live, orig, mgr, hpos, preinstall>>
    /\ UNCHANGED hookRest

\* the innermost detour of thread t returns: its guard, if it got one, is dropped
DetourReturn(t) ==
    /\ frames[t] # <<>>
    /\ frames' = [frames EXCEPT ![t] = SubSeq(@, 1, Len(@) - 1)]
    /\ tls' = [tls EXCEPT ![t] = IF frames[t][Len(frames[t])] = "scope"
                                   THEN CallGuard_drop(@, env.tlsOk) ELSE @]
    /\ UNCHANGED <<env, tmem, prot, gw, hspec, live, orig, mgr, hpos, preinstall>>
    /\ UNCHANGED hookRest

(***************************************************************************)
(* User agent: ConsoleCleanup                                              *)
(***************************************************************************)
\* wincon.h values of the console control events
CTRL_C_EVENT == 0
CTRL_BREAK_EVENT == 1
CTRL_CLOSE_EVENT == 2
CtrlTypes == {CTRL_C_EVENT, CTRL_BREAK_EVENT, CTRL_CLOSE_EVENT}

\* console control events delivered to the process
MaxEvents == 3
\* explicit trigger() calls of the main thread
MaxTriggers == 2

\* fire_once that spawns the routine whatever the flag was
fire_always(f) == [fired |-> TRUE, spawn |-> TRUE]

\* CleanupInner::fire_once, lines 36-46: fired.swap(true) and, when it was false,
\* thread::spawn of the cleanup routine
fire_once(f) == [fired |-> TRUE, spawn |-> ~f]

FireOnce ==
    LET r == fire_once(fired)
    IN  /\ fired' = r.fired
        /\ cleaner' = IF r.spawn THEN Append(cleaner, "spawned") ELSE cleaner

\* the OS starts a handler thread in console_handler, lines 57-68; the types other
\* than Ctrl+C and close return 0 at once
CtrlEvent(ctrl_type) ==
    /\ events < MaxEvents
    /\ events' = events + 1
    /\ handlers' = IF ctrl_type \in {CTRL_C_EVENT, CTRL_CLOSE_EVENT}
                     THEN handlers + 1 ELSE handlers
    /\ UNCHANGED <<fired, mainPc, triggers, cleaner>>
    /\ UNCHANGED cleanupRest

\* a handler thread reaches state.fire_once()
HandlerFire ==
    /\ handlers > 0
    /\ handlers' = handlers - 1
    /\ FireOnce
    /\ UNCHANGED <<events, mainPc, triggers>>
    /\ UNCHANGED cleanupRest

\* ConsoleCleanup::trigger, lines 111-113
Trigger ==
    /\ mainPc = "running"
    /\ triggers < MaxTriggers
    /\ triggers' = triggers + 1
    /\ FireOnce
    /\ UNCHANGED <<handlers, events, mainPc>>
    /\ UNCHANGED cleanupRest

\* Drop for ConsoleCleanup, lines 122-127: the load of was_triggered()
DropLoad ==
    /\ mainPc = "running"
    /\ mainPc' = IF fired THEN "exited" ELSE "drop_fire"
    /\ UNCHANGED <<fired, handlers, events, triggers, cleaner>>
    /\ UNCHANGED cleanupRest

\* Drop for ConsoleCleanup: the fire_once after the load found the flag clear
DropFire ==
    /\ mainPc = "drop_fire"
    /\ mainPc' = "exited"
    /\ FireOnce
    /\ UNCHANGED <<handlers, events, triggers>>
    /\ UNCHANGED cleanupRest

\* a spawned thread runs the cleanup routine (it sends the pre-unload request)
CleanupRun(i) ==
    /\ cleaner[i] = "spawned"
    /\ cleaner' = [cleaner EXCEPT ![i] = "done"]
    /\ UNCHANGED <<fired, handlers, events, mainPc, triggers>>
    /\ UNCHANGED cleanupRest

(***************************************************************************)
(* Event filters and callback routines as functions of one notification:   *)
(* callbacks/filters.rs, callbacks/registry.rs, callbacks/process.rs.      *)
(* A path is the sequence of its bytes.                                    *)
(***************************************************************************)
\* to_ascii_lower, lines 14-16
to_ascii_lower(b) == IF b \in 65..90 THEN b + 32 ELSE b

\* eq_ci, lines 20-22
eq_ci(a, b) == to_ascii_lower(a) = to_ascii_lower(b)

\* starts_with_ci, lines 26-38
starts_with_ci(haystack, prefix) ==
    IF Len(prefix) > Len(haystack) THEN FALSE
    ELSE \A i \in 1..Len(prefix) : eq_ci(haystack[i], prefix[i])

\* contains_ci, lines 42-62
contains_ci(haystack, needle) ==
    LET m == Len(needle)
    IN  IF m = 0 \/ m > Len(haystack) THEN FALSE
        ELSE \E w \in 0..(Len(haystack) - m) :
                 \A i \in 1..m : eq_ci(haystack[w + i], needle[i])

\* "\REGISTRY\MACHINE\SOFTWARE\Gladix\"
VENDOR_KEY_PREFIX ==
    <<92, 82, 69, 71, 73, 83, 84, 82, 89, 92, 77, 65, 67, 72, 73, 78, 69, 92, 83, 79,
      70, 84, 87, 65, 82, 69, 92, 71, 108, 97, 100, 105, 120, 92>>

\* "\REGISTRY\MACHINE\SOFTWARE\Microsoft\Windows\CurrentVersion\Run"
PrefixRun ==
    <<92, 82, 69, 71, 73, 83, 84, 82, 89, 92, 77, 65, 67, 72, 73, 78, 69, 92, 83, 79,
      70, 84, 87, 65, 82, 69, 92, 77, 105, 99, 114, 111, 115, 111, 102, 116, 92, 87,
      105, 110, 100, 111, 119, 115, 92, 67, 117, 114, 114, 101, 110, 116, 86, 101, 114,
      115, 105, 111, 110, 92, 82, 117, 110>>

\* "\REGISTRY\MACHINE\SOFTWARE\Microsoft\Windows\CurrentVersion\RunOnce"
PrefixRunOnce ==
    <<92, 82, 69, 71, 73, 83, 84, 82, 89, 92, 77, 65, 67, 72, 73, 78, 69, 92, 83, 79,
      70, 84, 87, 65, 82, 69, 92, 77, 105, 99, 114, 111, 115, 111, 102, 116, 92, 87,
      105, 110, 100, 111, 119, 115, 92, 67, 117, 114, 114, 101, 110, 116, 86, 101, 114,
      115, 105, 111, 110, 92, 82, 117, 110, 79, 110, 99, 101>>

\* "\REGISTRY\USER\"
PrefixUserHives ==
    <<92, 82, 69, 71, 73, 83, 84, 82, 89, 92, 85, 83, 69, 82, 92>>

\* "\REGISTRY\MACHINE\SYSTEM\CurrentControlSet\Services\"
PrefixServices ==
    <<92, 82, 69, 71, 73, 83, 84, 82, 89, 92, 77, 65, 67, 72, 73, 78, 69, 92, 83, 89,
      83, 84, 69, 77, 92, 67, 117, 114, 114, 101, 110, 116, 67, 111, 110, 116, 114, 111,
      108, 83, 101, 116, 92, 83, 101, 114, 118, 105, 99, 101, 115, 92>>

\* "\REGISTRY\MACHINE\SOFTWARE\Microsoft\Windows NT\CurrentVersion\Image File Execution Options\"
PrefixIfeo ==
    <<92, 82, 69, 71, 73, 83, 84, 82, 89, 92, 77, 65, 67, 72, 73, 78, 69, 92, 83, 79,
      70, 84, 87, 65, 82, 69, 92, 77, 105, 99, 114, 111, 115, 111, 102, 116, 92, 87,
      105, 110, 100, 111, 119, 115, 32, 78, 84, 92, 67, 117, 114, 114, 101, 110, 116,
      86, 101, 114, 115, 105, 111, 110, 92, 73, 109, 97, 103, 101, 32, 70, 105, 108,
      101, 32, 69, 120, 101, 99, 117, 116, 105, 111, 110, 32, 79, 112, 116, 105, 111,
      110, 115, 92>>

\* "\REGISTRY\MACHINE\SOFTWARE\Microsoft\Windows NT\CurrentVersion\Windows\"
PrefixAppInit ==
    <<92, 82, 69, 71, 73, 83, 84, 82, 89, 92, 77, 65, 67, 72, 73, 78, 69, 92, 83, 79,
      70, 84, 87, 65, 82, 69, 92, 77, 105, 99, 114, 111, 115, 111, 102, 116, 92, 87,
      105, 110, 100, 111, 119, 115, 32, 78, 84, 92, 67, 117, 114, 114, 101, 110, 116,
      86, 101, 114, 115, 105, 111, 110, 92, 87, 105, 110, 100, 111, 119, 115, 92>>

\* "\REGISTRY\MACHINE\SOFTWARE\Microsoft\Windows NT\CurrentVersion\Winlogon\"
PrefixWinlogon ==
    <<92, 82, 69, 71, 73, 83, 84, 82, 89, 92, 77, 65, 67, 72, 73, 78, 69, 92, 83, 79,
      70, 84, 87, 65, 82, 69, 92, 77, 105, 99, 114, 111, 115, 111, 102, 116, 92, 87,
      105, 110, 100, 111, 119, 115, 32, 78, 84, 92, 67, 117, 114, 114, 101, 110, 116,
      86, 101, 114, 115, 105, 111, 110, 92, 87, 105, 110, 108, 111, 103, 111, 110, 92>>

\* "\REGISTRY\MACHINE\SYSTEM\CurrentControlSet\Control\Lsa\"
PrefixLsa ==
    <<92, 82, 69, 71, 73, 83, 84, 82, 89, 92, 77, 65, 67, 72, 73, 78, 69, 92, 83, 89,
      83, 84, 69, 77, 92, 67, 117, 114, 114, 101, 110, 116, 67, 111, 110, 116, 114, 111,
      108, 83, 101, 116, 92, 67, 111, 110, 116, 114, 111, 108, 92, 76, 115, 97, 92>>

\* "\REGISTRY\MACHINE\SOFTWARE\Microsoft\Windows NT\CurrentVersion\Schedule\TaskCache\"
PrefixTaskCache ==
    <<92, 82, 69, 71, 73, 83, 84, 82, 89, 92, 77, 65, 67, 72, 73, 78, 69, 92, 83, 79,
      70, 84, 87, 65, 82, 69, 92, 77, 105, 99, 114, 111, 115, 111, 102, 116, 92, 87,
      105, 110, 100, 111, 119, 115, 32, 78, 84, 92, 67, 117, 114, 114, 101, 110, 116,
      86, 101, 114, 115, 105, 111, 110, 92, 83, 99, 104, 101, 100, 117, 108, 101, 92,
      84, 97, 115, 107, 67, 97, 99, 104, 101, 92>>

\* SENSITIVE_PREFIXES, lines 132-149, in the order of the array
SENSITIVE_PREFIXES ==
    <<PrefixRun, PrefixRunOnce, PrefixUserHives, PrefixServices, PrefixIfeo,
      PrefixAppInit, PrefixWinlogon, PrefixLsa, PrefixTaskCache>>

\* "\classes\"
NeedleClasses ==
    <<92, 99, 108, 97, 115, 115, 101, 115, 92>>

\* "\muicache\"
NeedleMuiCache ==
    <<92, 109, 117, 105, 99, 97, 99, 104, 101, 92>>

\* "\appcompatflags\"
NeedleAppCompat ==
    <<92, 97, 112, 112, 99, 111, 109, 112, 97, 116, 102, 108, 97, 103, 115, 92>>

\* "\installer\products\"
NeedleInstaller ==
    <<92, 105, 110, 115, 116, 97, 108, 108, 101, 114, 92, 112, 114, 111, 100, 117, 99,
      116, 115, 92>>

\* "\currentversion\run"
NeedleRun ==
    <<92, 99, 117, 114, 114, 101, 110, 116, 118, 101, 114, 115, 105, 111, 110, 92, 114,
      117, 110>>

\* "\currentversion\runonce"
NeedleRunOnce ==
    <<92, 99, 117, 114, 114, 101, 110, 116, 118, 101, 114, 115, 105, 111, 110, 92, 114,
      117, 110, 111, 110, 99, 101>>

\* is_registry_noise_path, lines 153-158
is_registry_noise_path(path_nt) ==
    \/ contains_ci(path_nt, NeedleClasses)
    \/ contains_ci(path_nt, NeedleMuiCache)
    \/ contains_ci(path_nt, NeedleAppCompat)
    \/ contains_ci(path_nt, NeedleInstaller)

\* should_emit_registry_setvalue, lines 177-200; the value name is not used
should_emit_registry_setvalue(key_path_nt, value_name) ==
    IF starts_with_ci(key_path_nt, VENDOR_KEY_PREFIX) THEN TRUE
    ELSE IF \E k \in 1..Len(SENSITIVE_PREFIXES) :
                starts_with_ci(key_path_nt, SENSITIVE_PREFIXES[k]) THEN TRUE
    ELSE IF contains_ci(key_path_nt, NeedleRun) \/ contains_ci(key_path_nt, NeedleRunOnce)
         THEN TRUE
    ELSE IF is_registry_noise_path(key_path_nt) THEN FALSE
    ELSE TRUE

\* "\registry\machine\software\gladix\"
RootVendorLower ==
    <<92, 114, 101, 103, 105, 115, 116, 114, 121, 92, 109, 97, 99, 104, 105, 110, 101,
      92, 115, 111, 102, 116, 119, 97, 114, 101, 92, 103, 108, 97, 100, 105, 120, 92>>

\* "\REGISTRY\MACHINE\SOFTWARE\"
RootMachineSoftware ==
    <<92, 82, 69, 71, 73, 83, 84, 82, 89, 92, 77, 65, 67, 72, 73, 78, 69, 92, 83, 79,
      70, 84, 87, 65, 82, 69, 92>>

\* "\REGISTRY\USER\S-1-5-21\Software\"
RootUserSoftware ==
    <<92, 82, 69, 71, 73, 83, 84, 82, 89, 92, 85, 83, 69, 82, 92, 83, 45, 49, 45, 53,
      45, 50, 49, 92, 83, 111, 102, 116, 119, 97, 114, 101, 92>>

\* "\registry\user\s-1-5-18\software\"
RootUserLower ==
    <<92, 114, 101, 103, 105, 115, 116, 114, 121, 92, 117, 115, 101, 114, 92, 115, 45,
      49, 45, 53, 45, 49, 56, 92, 115, 111, 102, 116, 119, 97, 114, 101, 92>>

\* "<unknown>"
RootUnknown ==
    <<60, 117, 110, 107, 110, 111, 119, 110, 62>>

\* "Classes\x"
TailClasses ==
    <<67, 108, 97, 115, 115, 101, 115, 92, 120>>

\* "Classes\Local Settings\MuiCache\1"
TailMuiCache ==
    <<67, 108, 97, 115, 115, 101, 115, 92, 76, 111, 99, 97, 108, 32, 83, 101, 116, 116,
      105, 110, 103, 115, 92, 77, 117, 105, 67, 97, 99, 104, 101, 92, 49>>

\* "Microsoft\Windows\CurrentVersion\Run"
TailRun ==
    <<77, 105, 99, 114, 111, 115, 111, 102, 116, 92, 87, 105, 110, 100, 111, 119, 115,
      92, 67, 117, 114, 114, 101, 110, 116, 86, 101, 114, 115, 105, 111, 110, 92, 82,
      117, 110>>

\* "Microsoft\Windows\CurrentVersion\RunOnce\a"
TailRunOnce ==
    <<77, 105, 99, 114, 111, 115, 111, 102, 116, 92, 87, 105, 110, 100, 111, 119, 115,
      92, 67, 117, 114, 114, 101, 110, 116, 86, 101, 114, 115, 105, 111, 110, 92, 82,
      117, 110, 79, 110, 99, 101, 92, 97>>

\* "MICROSOFT\WINDOWS NT\CURRENTVERSION\APPCOMPATFLAGS\Layers"
TailAppCompat ==
    <<77, 73, 67, 82, 79, 83, 79, 70, 84, 92, 87, 73, 78, 68, 79, 87, 83, 32, 78, 84,
      92, 67, 85, 82, 82, 69, 78, 84, 86, 69, 82, 83, 73, 79, 78, 92, 65, 80, 80, 67,
      79, 77, 80, 65, 84, 70, 76, 65, 71, 83, 92, 76, 97, 121, 101, 114, 115>>

\* "Installer\Products\0"
TailInstaller ==
    <<73, 110, 115, 116, 97, 108, 108, 101, 114, 92, 80, 114, 111, 100, 117, 99, 116,
      115, 92, 48>>

\* "Policies"
TailPolicies ==
    <<80, 111, 108, 105, 99, 105, 101, 115>>

\* "classes"
TailClassesLeaf ==
    <<99, 108, 97, 115, 115, 101, 115>>

\* "Microsoft\Windows NT\CurrentVersion\Image File Execution Options\a.exe"
TailIfeo ==
    <<77, 105, 99, 114, 111, 115, 111, 102, 116, 92, 87, 105, 110, 100, 111, 119, 115,
      32, 78, 84, 92, 67, 117, 114, 114, 101, 110, 116, 86, 101, 114, 115, 105, 111,
      110, 92, 73, 109, 97, 103, 101, 32, 70, 105, 108, 101, 32, 69, 120, 101, 99, 117,
      116, 105, 111, 110, 32, 79, 112, 116, 105, 111, 110, 115, 92, 97, 46, 101, 120,
      101>>

\* key paths the object manager resolves: a root followed by a tail
RegRoots == {VENDOR_KEY_PREFIX, RootVendorLower, RootMachineSoftware, RootUserSoftware,
             RootUserLower, PrefixServices, PrefixWinlogon, RootUnknown, <<>>}
RegTails == {<<>>, TailClasses, TailMuiCache, TailRun, TailRunOnce, TailAppCompat,
             TailInstaller, TailPolicies, TailClassesLeaf, TailIfeo}
RegPaths == {r \o t : r \in RegRoots, t \in RegTails}

\* REG_NOTIFY_CLASS values: RegNtPreDeleteKey, RegNtPreSetValueKey, RegNtPostSetValueKey
RegNtPreDeleteKey == 0
RegNtPreSetValueKey == 1
RegNtPostSetValueKey == 16
RegClasses == {RegNtPreDeleteKey, RegNtPreSetValueKey, RegNtPostSetValueKey}

NoNote == [fam |-> "none"]
NoRes == [kind |-> "none"]

\* registry notifications: the class, whether ObQueryNameString gives the key's name,
\* the name, the value name, the Data pointer and the data bytes
RegNotes ==
    {[fam |-> "reg", class |-> c, name_ok |-> ok, path |-> p, value_name |-> "Debugger",
      data_null |-> dn, data |-> d, pid |-> 1234] :
        c \in RegClasses, ok \in BOOLEAN, p \in RegPaths, dn \in BOOLEAN,
        d \in {<<>>, <<1, 0>>}}

\* process notifications: info_ptr null on exit, PsGetProcessId, ParentProcessId,
\* ImageFileName and CommandLine (a null UNICODE_STRING reads as the empty string)
ProcNotes ==
    {[fam |-> "proc", exit |-> x, pid |-> pid, ppid |-> 600, image_path |-> ip,
      cmdline |-> cl] :
        x \in BOOLEAN, pid \in {4, 99, 100, 1234}, ip \in {"", "\\Device\\a.exe"},
        cl \in {"", "a.exe -x"}}

\* registry_callback that also handles the post-operation class
registry_callback_post_too(n) ==
    IF n.class \notin {RegNtPreSetValueKey, RegNtPostSetValueKey}
    THEN [kind |-> "reg", status |-> STATUS_SUCCESS, read_payload |-> FALSE, pushes |-> <<>>]
    ELSE [kind |-> "reg", status |-> STATUS_SUCCESS, read_payload |-> TRUE,
          pushes |-> <<[key_path |-> n.path, op_type |-> "Modify", old_value |-> <<>>,
                        new_value |-> n.data, process_id |-> n.pid]>>]

\* registry_callback, lines 110-162: the status returned, whether the payload was
\* read, and the events handed to push_event
registry_callback(n) ==
    IF n.class # RegNtPreSetValueKey
    THEN [kind |-> "reg", status |-> STATUS_SUCCESS, read_payload |-> FALSE, pushes |-> <<>>]
    ELSE LET key_path == IF n.name_ok THEN n.path ELSE RootUnknown
             new_buf == IF Len(n.data) > 0 /\ ~n.data_null THEN n.data ELSE <<>>
         IN  IF ~should_emit_registry_setvalue(key_path, n.value_name)
             THEN [kind |-> "reg", status |-> STATUS_SUCCESS, read_payload |-> TRUE,
                   pushes |-> <<>>]
             ELSE [kind |-> "reg", status |-> STATUS_SUCCESS, read_payload |-> TRUE,
                   pushes |-> <<[key_path |-> key_path, op_type |-> "Modify",
                                 old_value |-> <<>>, new_value |-> new_buf,
                                 process_id |-> n.pid]>>]

\* process_notify that reports exits as well
process_notify_on_exit(n) ==
    [kind |-> "proc",
     pushes |-> <<[pid |-> n.pid, ppid |-> n.ppid, image_path |-> n.image_path,
                   cmdline |-> n.cmdline]>>]

\* process_notify, lines 57-88: the events handed to push_event
process_notify(n) ==
    IF n.exit THEN [kind |-> "proc", pushes |-> <<>>]
    ELSE IF ~should_emit_process_create(n.pid, n.image_path)
    THEN [kind |-> "proc", pushes |-> <<>>]
    ELSE [kind |-> "proc",
          pushes |-> <<[pid |-> n.pid, ppid |-> n.ppid, image_path |-> n.image_path,
                        cmdline |-> n.cmdline]>>]

callRest == <<kernelVars, build, hookVars, cleanupVars, commsVars, scanVars>>

\* the OS calls registry_callback
RegistryCallback ==
    /\ note.fam = "reg"
    /\ cbres = NoRes
    /\ cbres' = registry_callback(note)
    /\ UNCHANGED <<note, callRest>>

\* the filter applied to a key path on its own
RegistryFilter ==
    /\ note.fam = "reg"
    /\ cbres = NoRes
    /\ cbres' = [kind |-> "filter",
                 emit |-> should_emit_registry_setvalue(note.path, note.value_name)]
    /\ UNCHANGED <<note, callRest>>

\* the OS calls process_notify
ProcessNotify ==
    /\ note.fam = "proc"
    /\ cbres = NoRes
    /\ cbres' = process_notify(note)
    /\ UNCHANGED <<note, callRest>>

(***************************************************************************)
(* Device handle of the hooking library: hooking-lib/src/comms.rs          *)
(***************************************************************************)
\* threads of the hooked process whose detours call send_to_driver
Callers == {"c1", "c2", "c3"}

\* null_mut(): the value of DEVICE_HANDLE_RAW before a handle is stored
NullHandle == 0

MaxCalls == 4

GIdle == [at |-> "idle", handle |-> 0]

\* no call has returned yet
GNone == [ok |-> FALSE, handle |-> -1]

\* compare_exchange that stores whatever the current value is
compare_exchange_as_store(cur, expected, new) == [ok |-> TRUE, val |-> new, prev |-> cur]

\* AtomicPtr::compare_exchange: [ok, val (the value afterwards), prev]
compare_exchange(cur, expected, new) ==
    IF cur = expected THEN [ok |-> TRUE, val |-> new, prev |-> cur]
    ELSE [ok |-> FALSE, val |-> cur, prev |-> cur]

commsRest == <<kernelVars, build, hookVars, cleanupVars, callVars, scanVars>>

\* get_device_handle, lines 20-24: the load and the early return
GetLoad(t) ==
    /\ gpc[t].at = "idle"
    /\ gcalls < MaxCalls
    /\ gcalls' = gcalls + 1
    /\ IF DEVICE_HANDLE_RAW # NullHandle
       THEN /\ gret' = [gret EXCEPT ![t] = [ok |-> TRUE, handle |-> DEVICE_HANDLE_RAW]]
            /\ UNCHANGED gpc
       ELSE /\ gpc' = [gpc EXCEPT ![t] = [at |-> "open", handle |-> 0]]
            /\ gret' = [gret EXCEPT ![t] = GNone]
    /\ UNCHANGED <<DEVICE_HANDLE_RAW, dhandles>>
    /\ UNCHANGED commsRest

\* lines 26-42: CreateFileW; an error (the driver is not loaded) returns through `?`
GetOpen(t, opened) ==
    /\ gpc[t].at = "open"
    /\ IF opened
       THEN /\ dhandles' = Append(dhandles, "open")
            /\ gpc' = [gpc EXCEPT ![t] = [at |-> "cas", handle |-> Len(dhandles) + 1]]
            /\ UNCHANGED gret
       ELSE /\ gpc' = [gpc EXCEPT ![t] = GIdle]
            /\ gret' = [gret EXCEPT ![t] = [ok |-> FALSE, handle |-> 0]]
            /\ UNCHANGED dhandles
    /\ UNCHANGED <<DEVICE_HANDLE_RAW, gcalls>>
    /\ UNCHANGED commsRest

\* lines 45-57: the compare_exchange and, for the loser, CloseHandle
GetInstall(t) ==
    /\ gpc[t].at = "cas"
    /\ LET r == compare_exchange(DEVICE_HANDLE_RAW, NullHandle, gpc[t].handle)
       IN  /\ DEVICE_HANDLE_RAW' = r.val
           /\ IF r.ok
              THEN /\ gret' = [gret EXCEPT ![t] = [ok |-> TRUE, handle |-> gpc[t].handle]]
                   /\ UNCHANGED dhandles
              ELSE /\ dhandles' = [dhandles EXCEPT ![gpc[t].handle] = "closed"]
                   /\ gret' = [gret EXCEPT ![t] = [ok |-> TRUE, handle |-> r.prev]]
    /\ gpc' = [gpc EXCEPT ![t] = GIdle]
    /\ UNCHANGED gcalls
    /\ UNCHANGED commsRest

(***************************************************************************)
(* Scan cache of a scanner worker: user-agent/src/scanner/cache.rs,        *)
(* scanner/worker.rs scan_one                                              *)
(***************************************************************************)
\* MAX_ENTRIES (10_000 in the program)
MAX_ENTRIES == 2

MaxUpdates == 4

MaxTouches == 1

ScanPaths == {"a", "b", "c", "d"}

\* Metadata of a file: whether modified() is available, the modification time in
\* milliseconds since the epoch, the length
Metas == {[has_mtime |-> h, mtime_ms |-> m, len |-> l] :
             h \in BOOLEAN, m \in {1000, 1500, 2000}, l \in {10}}

NoScan == [path |-> "", unchanged |-> FALSE, updated |-> FALSE, evicted |-> ""]

\* ScanCache::stamp, lines 92-99: whole seconds, 0 when the time is not available
stamp(meta) == <<IF meta.has_mtime THEN meta.mtime_ms \div 1000 ELSE 0, meta.len>>

\* ScanCache::is_unchanged, lines 55-58
is_unchanged(c, path, meta) == path \in DOMAIN c.map /\ c.map[path] = stamp(meta)

\* the value of a map after insert(path, st)
map_insert(m, path, st) == [q \in DOMAIN m \cup {path} |-> IF q = path THEN st ELSE m[q]]

\* the value of a map after remove(path)
map_remove(m, path) == [q \in DOMAIN m \ {path} |-> m[q]]

\* ScanCache::update, lines 66-82
update(c, path, meta) ==
    IF path \in DOMAIN c.map
    THEN [c EXCEPT !.map = map_insert(@, path, stamp(meta))]
    ELSE LET m == map_insert(c.map, path, stamp(meta))
             o == Append(c.order, path)
         IN  IF Len(o) > MAX_ENTRIES
             THEN [map |-> map_remove(m, Head(o)), order |-> Tail(o)]
             ELSE [map |-> m, order |-> o]

scanRest == <<kernelVars, build, hookVars, cleanupVars, callVars, commsVars>>

FirstMeta == [has_mtime |-> TRUE, mtime_ms |-> 1000, len |-> 10]

\* a file is rewritten between two passes of the worker: its modification time moves
\* forward
Touch(path, meta) ==
    /\ Cardinality({q \in ScanPaths : files[q] # FirstMeta} \cup {path}) <= MaxTouches
    /\ files[path].mtime_ms < meta.mtime_ms
    /\ files' = [files EXCEPT ![path] = meta]
    /\ UNCHANGED <<cache, updLog, lastScan>>
    /\ UNCHANGED scanRest

\* scan_one, lines 110-146: the metadata, the cache test, the read and the scan (either
\* may fail and return through `?`), then cache.update
ScanOne(path, scanOk) ==
    /\ Len(updLog) < MaxUpdates
    /\ LET metadata == files[path]
       IN  IF is_unchanged(cache, path, metadata)
           THEN /\ lastScan' = [path |-> path, unchanged |-> TRUE, updated |-> FALSE,
                                evicted |-> ""]
                /\ UNCHANGED <<cache, updLog>>
           ELSE IF ~scanOk
           THEN /\ lastScan' = [path |-> path, unchanged |-> FALSE, updated |-> FALSE,
                                evicted |-> ""]
                /\ UNCHANGED <<cache, updLog>>
           ELSE LET c == update(cache, path, metadata)
                    gone == DOMAIN cache.map \ DOMAIN c.map
                IN  /\ cache' = c
                    /\ updLog' = Append(updLog, path)
                    /\ lastScan' = [path |-> path, unchanged |-> FALSE, updated |-> TRUE,
                                    evicted |-> IF gone = {} THEN ""
                                                ELSE CHOOSE q \in gone : TRUE]
    /\ UNCHANGED files
    /\ UNCHANGED scanRest

(***************************************************************************)
(* Initial states and specifications                                       *)
(***************************************************************************)
\* the hooked process before install_all: targets as loaded, pages read-execute
InitHooked(e, spec) ==
    /\ env = e
    /\ tmem = e.code
    /\ prot = [p \in Pages |-> "RX"]
    /\ gw = <<>>
    /\ hspec = spec
    /\ live = <<>>
    /\ orig = [i \in 1..Len(spec) |-> 0]
    /\ mgr = "idle"
    /\ hpos = 0
    /\ preinstall = <<>>
    /\ tls = [t \in HThreads |-> FALSE]
    /\ frames = [t \in HThreads |-> <<>>]

\* the agent after ConsoleCleanup::new, lines 83-106
InitCleanup ==
    /\ fired = FALSE
    /\ handlers = 0
    /\ events = 0
    /\ mainPc = "running"
    /\ triggers = 0
    /\ cleaner = <<>>

\* no notification is being handled
InitCalls ==
    /\ note = NoNote
    /\ cbres = NoRes

\* the hooked process before any detour has sent an event
InitComms ==
    /\ DEVICE_HANDLE_RAW = NullHandle
    /\ dhandles = <<>>
    /\ gpc = [t \in Callers |-> GIdle]
    /\ gret = [t \in Callers |-> GNone]
    /\ gcalls = 0

\* ScanCache::default(), lines 43-50, and the files as first seen
InitScan ==
    /\ cache = [map |-> <<>>, order |-> <<>>]
    /\ files = [p \in ScanPaths |-> FirstMeta]
    /\ updLog = <<>>
    /\ lastScan = NoScan

InitLib == InitCalls /\ InitComms /\ InitScan

InitUser == InitHooked(DefaultEnv, <<>>) /\ InitCleanup /\ InitLib

InitThreads ==
    /\ pc = [t \in Threads |-> "idle"]
    /\ loc = [t \in Threads |-> NoLoc]

InitGate ==
    /\ RUNDOWN_PTR = NULL
    /\ ACTIVE = 0
    /\ rundown = FreshRundown
    /\ scope = [t \in Workers |-> "none"]
    /\ tdpc = "start"
    /\ blocked = FALSE

InitDriver ==
    /\ RING_PTR = NULL
    /\ drv = "unloaded"
    /\ devExt = "none"
    /\ device = FALSE
    /\ symlink = FALSE
    /\ cb_mask = DefaultMask
    /\ osReg = {}
    /\ regLog = <<>>
    /\ regRet = "none"
    /\ unregLog = [t \in Threads |-> <<>>]
    /\ entryRet = "none"
    /\ irp = [t \in Threads |-> NoIrp]
    /\ prepared = FALSE
    /\ uaf = FALSE
    /\ loads = 0

InitConsumer ==
    /\ cpc = "idle"
    /\ chead = 0
    /\ lastRead = "never"
    /\ pushLog = <<>>
    /\ readLog = <<>>
    /\ drained = FALSE

\* the driver is not loaded; the SECTION does not exist yet
Init ==
    /\ shm = ZeroShm
    /\ kring = [base |-> FALSE, data_size |-> Cap]
    /\ uring = [size |-> 0, tail |-> 0]
    /\ build = FALSE
    /\ InitConsumer /\ InitUser /\ InitThreads /\ InitGate /\ InitDriver

Next ==
    \/ \E f \in EntryFailures, st \in EntryStatuses \cup RegStatuses : DriverEntry(f, st)
    \/ \E stImg \in RegStatuses : EntryRegisterImage(stImg)
    \/ EntryRollback
    \/ DriverUnload
    \/ \E t \in Threads, in \in ProcInputs : CbProcess(t, in)
    \/ \E t \in Threads, in \in ImgInputs : CbImage(t, in)
    \/ \E t \in Threads : DrvPushWrite(t)
    \/ \E t \in Threads : DrvPushPublish(t)
    \/ \E t \in Threads : DrvPushDangling(t)
    \/ \E t \in Threads, input \in HookInputs : IngestStart(t, input)
    \/ \E t \in Threads : IngestRelease(t)
    \/ \E t \in Threads, passive \in BOOLEAN : PrepareUnload(t, passive)
    \/ \E t \in Threads : PrepareUnloadImage(t)
    \/ \E t \in Threads : PrepareUnloadProcess(t)

Spec == Init /\ [][Next]_vars

\* the ring is created and mapped by the kernel (create + map on a fresh SECTION)
\* and opened by the consumer
InitRing ==
    /\ shm = map(ZeroShm, Cap)
    /\ kring = [base |-> TRUE, data_size |-> Cap]
    /\ uring = open(shm)
    /\ build \in BOOLEAN
    /\ InitConsumer /\ InitUser /\ InitThreads /\ InitGate /\ InitDriver

NextRing ==
    \/ \E p \in Payloads : RingPush(p)
    \/ RingPushWrite
    \/ RingPushPublish
    \/ ReadBegin
    \/ ReadFinish

SpecRing == InitRing /\ [][NextRing]_vars

InitGuard == Init

NextGuard ==
    \/ (\E t \in Workers : Enter(t)) /\ UNCHANGED otherThanGuard
    \/ (\E t \in Workers : ScopeDrop(t)) /\ UNCHANGED otherThanGuard
    \/ GuardPublish /\ UNCHANGED otherThanGuard
    \/ GuardBeginUnload /\ UNCHANGED otherThanGuard
    \/ GuardWaitCall /\ UNCHANGED otherThanGuard
    \/ GuardWaitReturn /\ UNCHANGED otherThanGuard
    \/ GuardClear /\ UNCHANGED otherThanGuard

SpecGuard == InitGuard /\ [][NextGuard]_vars

\* SpecGuardFair: SpecGuard in which every thread that entered a region leaves it
\* (its Scope is dropped at the end of the callback), the thread that called
\* begin_unload goes on to call wait_for_zero, and
\* ExWaitForRundownProtectionRelease returns once the object has drained.
SpecGuardFair ==
    /\ InitGuard
    /\ [][NextGuard]_vars
    /\ \A t \in Workers : WF_vars(ScopeDrop(t) /\ UNCHANGED otherThanGuard)
    /\ WF_vars(GuardWaitCall /\ UNCHANGED otherThanGuard)
    /\ WF_vars(GuardWaitReturn /\ UNCHANGED otherThanGuard)

(***************************************************************************)
(* SpecGuardFree: worker threads enter and leave protected regions while   *)
(* another thread calls set_rundown_ptr and clear_rundown_ptr at any time. *)
(***************************************************************************)
\* the gate after init_rundown and set_rundown_ptr (driver_entry lines 109-110)
InitGuardFree ==
    /\ shm = ZeroShm
    /\ kring = [base |-> FALSE, data_size |-> Cap]
    /\ uring = [size |-> 0, tail |-> 0]
    /\ build = FALSE
    /\ InitConsumer /\ InitUser /\ InitThreads /\ InitDriver
    /\ RUNDOWN_PTR = "rundown"
    /\ ACTIVE = 0
    /\ rundown = FreshRundown
    /\ scope = [t \in Workers |-> "none"]
    /\ tdpc = "published"
    /\ blocked = FALSE

\* set_rundown_ptr, lines 43-45, with the address of the same object
GuardSetPtr ==
    /\ RUNDOWN_PTR = NULL
    /\ loads < MaxRounds
    /\ loads' = loads + 1
    /\ RUNDOWN_PTR' = "rundown"
    /\ UNCHANGED <<ACTIVE, rundown, scope, tdpc, blocked, drv>>

\* clear_rundown_ptr, lines 57-59
GuardClearPtr ==
    /\ RUNDOWN_PTR # NULL
    /\ RUNDOWN_PTR' = NULL
    /\ UNCHANGED <<ACTIVE, rundown, scope, tdpc, blocked, loads, drv>>

NextGuardFree ==
    \/ (\E t \in Workers : Enter(t)) /\ UNCHANGED otherThanGuard
    \/ (\E t \in Workers : ScopeDrop(t)) /\ UNCHANGED otherThanGuard
    \/ GuardSetPtr /\ UNCHANGED otherThanGuard
    \/ GuardClearPtr /\ UNCHANGED otherThanGuard

SpecGuardFree == InitGuardFree /\ [][NextGuardFree]_vars

(***************************************************************************)
(* SpecIngest: SEND_HOOK_EVENT requests on two threads against a loaded    *)
(* driver, while a teardown thread completes the rundown through           *)
(* callback_guard::begin_unload.                                           *)
(***************************************************************************)
\* the state driver_entry leaves when every step succeeds
InitLoaded ==
    LET r == register_all({}, STATUS_SUCCESS, STATUS_SUCCESS)
    IN  /\ shm = map(ZeroShm, Cap)
        /\ kring = [base |-> TRUE, data_size |-> Cap]
        /\ uring = [size |-> 0, tail |-> 0]
        /\ build = FALSE
        /\ InitConsumer /\ InitUser /\ InitThreads
        /\ RUNDOWN_PTR = "rundown"
        /\ ACTIVE = 0
        /\ rundown = FreshRundown
        /\ scope = [t \in Workers |-> "none"]
        /\ tdpc = "published"
        /\ blocked = FALSE
        /\ RING_PTR = r.ring_ptr
        /\ drv = "loaded"
        /\ devExt = "alive"
        /\ device = TRUE
        /\ symlink = TRUE
        /\ cb_mask = r.mask
        /\ osReg = r.reg
        /\ regLog = r.log
        /\ regRet = r.ret
        /\ unregLog = [t \in Threads |-> <<>>]
        /\ entryRet = r.ret
        /\ irp = [t \in Threads |-> NoIrp]
        /\ prepared = FALSE
        /\ uaf = FALSE
        /\ loads = 1

NextIngest ==
    \/ \E t \in Threads, input \in HookInputs : IngestStart(t, input)
    \/ \E t \in Threads : DrvPushWrite(t)
    \/ \E t \in Threads : DrvPushPublish(t)
    \/ \E t \in Threads : IngestRelease(t)
    \/ GuardBeginUnload /\ UNCHANGED otherThanGuard

SpecIngest == InitLoaded /\ [][NextIngest]_vars

(***************************************************************************)
(* SpecDispatch: create, close and device-control requests with any        *)
(* control code on two threads against a loaded driver.                    *)
(***************************************************************************)
NextDispatch ==
    \/ \E t \in Threads, code \in IoctlCodes : DeviceControl(t, code)
    \/ \E t \in Threads : PrepareUnloadImage(t)
    \/ \E t \in Threads : PrepareUnloadProcess(t)
    \/ \E t \in Threads : DrvPushWrite(t)
    \/ \E t \in Threads : DrvPushPublish(t)
    \/ \E t \in Threads : IngestRelease(t)
    \/ \E t \in Threads : DispatchCreate(t)
    \/ \E t \in Threads : DispatchClose(t)

SpecDispatch == InitLoaded /\ [][NextDispatch]_vars

(***************************************************************************)
(* SpecRingOps: SpecRing with the other operations on a mapped ring: the   *)
(* consumer's skip_all and a re-map of the same SECTION with the same      *)
(* capacity by a new driver load.                                          *)
(***************************************************************************)
\* number of push_bytes calls in one behaviour of SpecRingOps
MaxOpsPush == 2

RingOpsPush(payload) == Len(pushLog) < MaxOpsPush /\ RingPush(payload)

\* skip_all, lines 194-198
RingSkipAll ==
    /\ cpc = "idle"
    /\ uring' = [uring EXCEPT !.tail = skip_all(shm.head)]
    /\ shm' = [shm EXCEPT !.tail = skip_all(shm.head)]
    /\ lastRead' = "skipped"
    /\ UNCHANGED <<kring, cpc, chead, pushLog, readLog, drained, userVars, thrVars>>
    /\ UNCHANGED <<guardVars, driverVars>>

\* setup_ring of a later driver load: create opens the existing SECTION, map validates
\* its header against the same data_size
RingRemap ==
    /\ pc[Producer] = "idle"
    /\ loads < MaxLoads
    /\ loads' = loads + 1
    /\ shm' = map(shm, kring.data_size)
    /\ UNCHANGED <<kring, uring, cpc, chead, lastRead, pushLog, readLog, drained, userVars>>
    /\ UNCHANGED <<thrVars, guardVars>>
    /\ UNCHANGED <<RING_PTR, drv, devExt, device, symlink, cb_mask, osReg, regLog, regRet,
                   unregLog, entryRet, irp, prepared, uaf>>

NextRingOps ==
    \/ \E p \in Payloads : RingOpsPush(p)
    \/ RingPushWrite
    \/ RingPushPublish
    \/ ReadBegin
    \/ ReadFinish
    \/ RingSkipAll
    \/ RingRemap

SpecRingOps == InitRing /\ [][NextRingOps]_vars

(***************************************************************************)
(* SpecFrame: one frame pushed and read back at every offset of the data   *)
(* region. The cursors are brought to the offset by the program itself:    *)
(* n rounds of push_bytes(Filler) followed by skip_all.                    *)
(***************************************************************************)
Filler == <<102>>

RECURSIVE Positioned(_)
Positioned(n) ==
    IF n = 0 THEN map(ZeroShm, Cap)
    ELSE LET m == push_bytes(Positioned(n - 1), TRUE, Cap, Filler)
         IN  [m EXCEPT !.tail = skip_all(m.head)]

InitFrame ==
    /\ \E n \in 0..(Cap - 1) : shm = Positioned(n)
    /\ kring = [base |-> TRUE, data_size |-> Cap]
    /\ uring = open(shm)
    /\ build \in BOOLEAN
    /\ InitConsumer /\ InitUser /\ InitThreads /\ InitGate /\ InitDriver

NextFrame ==
    \/ \E p \in Payloads : pushLog = <<>> /\ RingPush(p)
    \/ RingPushWrite
    \/ RingPushPublish
    \/ ReadBegin
    \/ ReadFinish

SpecFrame == InitFrame /\ [][NextFrame]_vars

(***************************************************************************)
(* SpecMap: a MemoryRing that is created, mapped on a SECTION an earlier   *)
(* load left behind, pushed to while mapped and while not, and unmapped.   *)
(***************************************************************************)
\* SECTION contents an earlier load can leave: the zero page of a new SECTION, or a
\* header of capacity Cap - 1 or Cap with any cursors and drop count
StaleShm ==
    {ZeroShm} \cup
    {[ZeroShm EXCEPT !.head = h, !.tail = t, !.dropped = d, !.size = c] :
        h \in 0..(Cap - 1), t \in 0..(Cap - 1), d \in 0..MaxDrops, c \in {Cap - 1, Cap}}

\* MemoryRing::create has returned: base is null
InitMap ==
    /\ shm \in {m \in StaleShm : m.size = 0 \/ (m.head < m.size /\ m.tail < m.size)}
    /\ kring = [base |-> FALSE, data_size |-> Cap]
    /\ uring = [size |-> 0, tail |-> 0]
    /\ build = FALSE
    /\ InitConsumer /\ InitUser /\ InitThreads /\ InitGate /\ InitDriver

\* MemoryRing::map, lines 170-250
MapRing ==
    /\ ~kring.base
    /\ loads < MaxLoads
    /\ loads' = loads + 1
    /\ kring' = [kring EXCEPT !.base = TRUE]
    /\ shm' = map(shm, kring.data_size)
    /\ UNCHANGED <<uring, cpc, chead, lastRead, pushLog, readLog, drained, userVars>>
    /\ UNCHANGED <<thrVars, guardVars>>
    /\ UNCHANGED <<RING_PTR, drv, devExt, device, symlink, cb_mask, osReg, regLog, regRet,
                   unregLog, entryRet, irp, prepared, uaf>>

\* Drop for MemoryRing, lines 381-398: the view is unmapped and base set to null
UnmapRing ==
    /\ kring.base
    /\ pc[Producer] = "idle"
    /\ kring' = [kring EXCEPT !.base = FALSE]
    /\ UNCHANGED <<shm, uring, cpc, chead, lastRead, pushLog, readLog, drained, userVars>>
    /\ UNCHANGED <<thrVars, guardVars, driverVars>>

\* number of push_bytes calls in one behaviour of SpecMap
MaxMapPush == 1

\* push_bytes on the ring, mapped or not
MapPush(payload) ==
    /\ pc[Producer] = "idle"
    /\ Len(pushLog) < MaxMapPush
    /\ PushEnter(Producer, payload, "ring")
    /\ pushLog' = Append(pushLog, payload)
    /\ drained' = FALSE
    /\ UNCHANGED <<kring, uring, cpc, chead, lastRead, readLog, userVars>>
    /\ UNCHANGED <<guardVars, driverVars>>

NextMap ==
    \/ MapRing
    \/ UnmapRing
    \/ \E p \in Payloads : MapPush(p)
    \/ RingPushWrite
    \/ RingPushPublish

SpecMap == InitMap /\ [][NextMap]_vars

(***************************************************************************)
(* SpecHooks: the hooking library in one process: install_all and          *)
(* uninstall_all over the manager's entries, and detours entering the      *)
(* re-entrancy guard on two threads.                                       *)
(***************************************************************************)
InitHooks ==
    /\ shm = ZeroShm
    /\ kring = [base |-> FALSE, data_size |-> Cap]
    /\ uring = [size |-> 0, tail |-> 0]
    /\ build = FALSE
    /\ InitConsumer /\ InitThreads /\ InitGate /\ InitDriver
    /\ \E e \in Envs, s \in HookLists : InitHooked(e, s)
    /\ InitCleanup
    /\ InitLib

NextHooks ==
    \/ \E allocOk \in BOOLEAN : InstallIter(allocOk)
    \/ UninstallIter
    \/ \E t \in HThreads : DetourEnter(t)
    \/ \E t \in HThreads : DetourReturn(t)

SpecHooks == InitHooks /\ [][NextHooks]_vars

(***************************************************************************)
(* SpecHooksAny: SpecHooks for every list of entries HookManager::add       *)
(* accepts, a list that names one function more than once included.        *)
(***************************************************************************)
\* manager.spec: up to MaxHooks entries; add() pushes without looking at the list
AnyHookLists == UNION {[1..n -> Entries] : n \in 0..MaxHooks}

InitHooksAny ==
    /\ shm = ZeroShm
    /\ kring = [base |-> FALSE, data_size |-> Cap]
    /\ uring = [size |-> 0, tail |-> 0]
    /\ build = FALSE
    /\ InitConsumer /\ InitThreads /\ InitGate /\ InitDriver
    /\ \E s \in AnyHookLists : InitHooked(DefaultEnv, s)
    /\ InitCleanup
    /\ InitLib

SpecHooksAny == InitHooksAny /\ [][NextHooks]_vars

(***************************************************************************)
(* SpecCleanup: the agent's ConsoleCleanup under console control events,   *)
(* trigger() calls and the drop at the end of main.                        *)
(***************************************************************************)
NextCleanup ==
    \/ \E c \in CtrlTypes : CtrlEvent(c)
    \/ HandlerFire
    \/ Trigger
    \/ DropLoad
    \/ DropFire
    \/ \E i \in DOMAIN cleaner : CleanupRun(i)

SpecCleanup == Init /\ [][NextCleanup]_vars

(***************************************************************************)
(* SpecCallbacks: one notification delivered to registry_callback or       *)
(* process_notify, or one key path given to the registry filter.           *)
(***************************************************************************)
InitCallbacks ==
    /\ shm = ZeroShm
    /\ kring = [base |-> FALSE, data_size |-> Cap]
    /\ uring = [size |-> 0, tail |-> 0]
    /\ build = FALSE
    /\ InitConsumer /\ InitThreads /\ InitGate /\ InitDriver
    /\ InitHooked(DefaultEnv, <<>>) /\ InitCleanup
    /\ InitComms /\ InitScan
    /\ note \in RegNotes \cup ProcNotes
    /\ cbres = NoRes

NextCallbacks ==
    \/ RegistryCallback
    \/ RegistryFilter
    \/ ProcessNotify

SpecCallbacks == InitCallbacks /\ [][NextCallbacks]_vars

(***************************************************************************)
(* SpecComms: threads of the hooked process calling get_device_handle.     *)
(***************************************************************************)
NextComms ==
    \/ \E t \in Callers : GetLoad(t)
    \/ \E t \in Callers, opened \in BOOLEAN : GetOpen(t, opened)
    \/ \E t \in Callers : GetInstall(t)

SpecComms == Init /\ [][NextComms]_vars

(***************************************************************************)
(* SpecScan: one scanner worker passing over files that change.            *)
(***************************************************************************)
NextScan ==
    \/ \E p \in ScanPaths, m \in Metas : Touch(p, m)
    \/ \E p \in ScanPaths, scanOk \in BOOLEAN : ScanOne(p, scanOk)

SpecScan == Init /\ [][NextScan]_vars

(***************************************************************************)
(* Properties                                                              *)
(***************************************************************************)
IsPrefix(a, b) == Len(a) <= Len(b) /\ \A i \in 1..Len(a) : a[i] = b[i]

Reverse(q) == [i \in 1..Len(q) |-> q[Len(q) + 1 - i]]

FamsOf(q) == [i \in 1..Len(q) |-> q[i].fam]

IsRegister(c) == c.op = "register"
IsRegisterOk(c) == c.op = "register" /\ c.st = STATUS_SUCCESS
IsRegisterFailed(c) == c.op = "register" /\ c.st # STATUS_SUCCESS
IsUnregister(c) == c.op = "unregister"

\* C1: with one producer and one consumer, while dropped is 0 the payloads returned
\* by read_next are a prefix of the payloads pushed, and once the consumer has
\* drained the ring the two sequences are equal.
C1_RoundTrip ==
    shm.dropped = 0 =>
        /\ IsPrefix(readLog, pushLog)
        /\ drained => readLog = pushLog

\* C2: at most one push on the ring is in progress at any moment, so no two threads
\* work from the same loaded head.
C2_SinglePush == Cardinality({t \in Threads : InPush(t)}) <= 1

\* C3: a callback handler that pushes into the ring holds rundown protection
\* acquired through enter() on entry.
C3_HandlersHoldRundown ==
    \A t \in Threads :
        (InPush(t) /\ loc[t].origin \in {"proc", "img", "reg"}) => scope[t] = "acquired"

\* C4: the device context is dropped by driver unload only after the barrier is
\* completed, every family is unregistered, the holders have drained and the
\* published ring and rundown pointers are cleared; nothing touches the ring or
\* the rundown object after the drop.
C4_TeardownOrder ==
    /\ devExt = "dropped" =>
          /\ rundown.completed
          /\ osReg = {}
          /\ rundown.count = 0
          /\ RING_PTR = NULL
          /\ RUNDOWN_PTR = NULL
    /\ ~uaf

\* C5: once UNREGISTER_CALLBACKS has returned the barrier is completed, and every
\* SEND_HOOK_EVENT request with input that starts afterwards is refused with
\* device-not-ready and pushes nothing.
C5_IngestRefusedAfterPrepare ==
    /\ prepared => rundown.completed
    /\ \A t \in Threads :
          (irp[t].code = "SEND_HOOK_EVENT" /\ irp[t].afterPrep /\ irp[t].len > 0) =>
              (irp[t].status = "STATUS_DEVICE_NOT_READY" /\ pc[t] = "idle")

\* C6: once the barrier is completed every enter() fails: the scope is not acquired
\* and the in-flight count and ACTIVE are unchanged.
C6_NoAcquireAfterComplete ==
    [][\A t \in Workers :
          (rundown.completed /\ scope[t] = "none" /\ scope'[t] # "none") =>
              (scope'[t] = "refused" /\ rundown' = rundown /\ ACTIVE' = ACTIVE)]_vars

\* an enter() was refused on a published, completed gate
C6_Witness ==
    /\ rundown.completed
    /\ RUNDOWN_PTR # NULL
    /\ \E t \in Workers : scope[t] = "refused"

\* C7: after wait_for_zero, called after begin_unload, has returned, no thread is
\* inside a protected region, and none enters one afterwards.
C7_DrainedMeansNoHolder ==
    (tdpc = "drained" \/ (tdpc = "start" /\ loads > 0)) =>
        \A t \in Workers : scope[t] # "acquired"

\* C8: when a registration fails inside register_all, no family is registered with
\* the OS on return, the families that had succeeded were unregistered in reverse
\* order, the ring pointer is null and the failing family's status is returned.
C8_AllOrNothing ==
    regRet \notin {"none", "pending", STATUS_SUCCESS} =>
        LET ok     == SelectSeq(regLog, IsRegisterOk)
            failed == SelectSeq(regLog, IsRegisterFailed)
            undone == SelectSeq(regLog, IsUnregister)
        IN  /\ osReg = {}
            /\ RING_PTR = NULL
            /\ regLog = SelectSeq(regLog, IsRegister) \o undone
            /\ FamsOf(undone) = Reverse(FamsOf(ok))
            /\ \A i \in 1..Len(undone) : undone[i].st = STATUS_SUCCESS
            /\ Len(failed) = 1
            /\ regLog[Len(ok) + 1] = failed[1]
            /\ regRet = failed[1].st

\* register_all failed at the image-load family and rolled the process family back
C8_Witness ==
    /\ regRet \notin {"none", "pending", STATUS_SUCCESS}
    /\ \E i \in 1..Len(regLog) : regLog[i] = Call("unregister", "proc", STATUS_SUCCESS)
    /\ \E i \in 1..Len(regLog) : regLog[i] = Call("register", "img", regRet)

\* C9: register_all attempts process, image-load, registry in that order, and when it
\* succeeds all three are registered and the mask has proc, img and reg set.
C9_AllThreeRegistered ==
    (regRet = STATUS_SUCCESS /\ drv = "loaded" /\ ~prepared) =>
        /\ FamsOf(regLog) = <<"proc", "img", "reg">>
        /\ osReg = {"proc", "img", "reg"}
        /\ cb_mask = [proc |-> TRUE, img |-> TRUE, reg |-> TRUE]

\* C10: after a push of exactly Cap - 4 bytes on the empty ring, and while the
\* consumer has read nothing, every further push of a non-empty payload is dropped:
\* dropped counts each of them and head stays where the first push left it.
C10_FullRingDrops ==
    ( /\ Len(pushLog) >= 1
      /\ Len(pushLog[1]) = Cap - 4
      /\ \A i \in 2..Len(pushLog) : Len(pushLog[i]) > 0
      /\ readLog = <<>>
      /\ shm.tail = 0 ) =>
        /\ shm.dropped = Len(pushLog) - 1
        /\ Len(pushLog) >= 2 => (shm.head = 0 /\ pc[Producer] = "idle")

\* C11: a frame of 1..Cap-4 payload bytes pushed at any offset tail = head of the data
\* region is returned by read_next byte for byte, from offsets inside the data region
\* only, and the consumer tail ends at (tail + 4 + L) mod Cap, which is the new head.
C11_FrameAtEveryOffset ==
    (Len(pushLog) = 1 /\ Len(pushLog[1]) \in 1..(Cap - 4)) =>
        /\ cpc # "panicked"
        /\ lastRead \notin {"resync", "partial"}
        /\ cpc = "loaded" =>
              \A o1, o2 \in OobBytes :
                  read_next(shm.data, uring.size, uring.tail, chead, build, o1)
                    = read_next(shm.data, uring.size, uring.tail, chead, build, o2)
        /\ readLog # <<>> =>
              (readLog = pushLog /\ uring.tail = shm.head /\ shm.tail = shm.head)
        /\ drained => readLog = pushLog

\* C12: in every reachable state of the ring head and tail (header and private) lie
\* in 0..Cap-1, and the producer's used and free satisfy used = (head - tail) mod Cap,
\* used + free = Cap and 0 <= used <= Cap.
C12_CursorsInRange ==
    LET used == used_before(shm.head, shm.tail, Cap)
        free == free_before(shm.head, shm.tail, Cap)
    IN  /\ shm.head \in 0..(Cap - 1)
        /\ shm.tail \in 0..(Cap - 1)
        /\ uring.tail \in 0..(Cap - 1)
        /\ used = (shm.head + Cap - shm.tail) % Cap
        /\ used + free = Cap
        /\ used \in 0..Cap

\* the producer has wrapped behind the consumer after a read, and skip_all has run
C12_Witness ==
    /\ shm.head < shm.tail
    /\ Len(readLog) >= 1
    /\ Len(pushLog) = 2
    /\ lastRead = "skipped"
    /\ pc[Producer] = "idle"

\* the payload handed to the push_bytes call that starts in this step
StartedPush == pushLog'[Len(pushLog')]

\* the data region d holds the frame of payload p at offset h: the length as four
\* little-endian bytes, then the payload, both wrapping at Cap
HoldsFrame(d, h, p) ==
    /\ \A i \in 0..3 : d[(h + i) % Cap] = IF i = 0 THEN Len(p) ELSE 0
    /\ \A i \in 1..Len(p) : d[(h + 4 + i - 1) % Cap] = p[i]

\* the offsets a frame of payload p at offset h occupies
FrameOffsets(h, p) == {(h + i) % Cap : i \in 0..(3 + Len(p))}

\* the offsets of its length prefix
PrefixOffsets(h) == {(h + i) % Cap : i \in 0..3}

\* C13: a push that is not dropped writes the little-endian length at head and the
\* payload at (head + 4) mod Cap, touches no other byte, and only then stores
\* (head + 4 + L) mod Cap into head; it never changes tail or dropped.
C13_PushWritesThenPublishes ==
    [][LET h == loc[Producer].head
           p == loc[Producer].payload
       IN  /\ (pc[Producer] = "write" /\ pc'[Producer] # "write") =>
                 /\ pc'[Producer] = "payload"
                 /\ h = shm.head
                 /\ \A i \in 0..3 : shm'.data[(h + i) % Cap] = IF i = 0 THEN Len(p) ELSE 0
                 /\ \A a \in (0..(Cap - 1)) \ PrefixOffsets(h) : shm'.data[a] = shm.data[a]
                 /\ shm'.head = shm.head
                 /\ shm'.tail = shm.tail
                 /\ shm'.dropped = shm.dropped
           /\ (pc[Producer] = "payload" /\ pc'[Producer] # "payload") =>
                 /\ pc'[Producer] = "publish"
                 /\ h = shm.head
                 /\ HoldsFrame(shm'.data, h, p)
                 /\ \A a \in (0..(Cap - 1)) \ (FrameOffsets(h, p) \ PrefixOffsets(h)) :
                       shm'.data[a] = shm.data[a]
                 /\ shm'.head = shm.head
                 /\ shm'.tail = shm.tail
                 /\ shm'.dropped = shm.dropped
           /\ (pc[Producer] = "publish" /\ pc'[Producer] = "idle") =>
                 /\ h = shm.head
                 /\ HoldsFrame(shm.data, h, p)
                 /\ shm'.head = (h + 4 + Len(p)) % Cap
                 /\ shm'.data = shm.data
                 /\ shm'.tail = shm.tail
                 /\ shm'.dropped = shm.dropped
           /\ shm'.head # shm.head => (pc[Producer] = "publish" /\ pc'[Producer] = "idle")
      ]_vars

\* two frames were pushed without a drop and the second one wraps around the end of
\* the data region
C13_Witness ==
    /\ Len(pushLog) = 2
    /\ pc[Producer] = "idle"
    /\ shm.dropped = 0
    /\ Len(pushLog[1]) > 0
    /\ shm.head > 0
    /\ shm.head < 4 + Len(pushLog[2])
    /\ HoldsFrame(shm.data, (shm.head + 2 * Cap - 4 - Len(pushLog[2])) % Cap, pushLog[2])

\* C14: a push whose frame of 4 + L bytes exceeds the free space computed from the
\* current head and tail increments dropped by exactly 1, changes nothing else in the
\* section and returns at once.
C14_NoSpaceDropsOnly ==
    [][(pushLog' # pushLog
         /\ 4 + Len(StartedPush) > Cap - ((shm.head + Cap - shm.tail) % Cap)) =>
           /\ shm' = [shm EXCEPT !.dropped = shm.dropped + 1]
           /\ pc'[Producer] = "idle"
      ]_vars

\* a frame that fits the capacity was dropped on an occupied ring
C14_Witness ==
    /\ shm.dropped >= 1
    /\ \A i \in 1..Len(pushLog) : Len(pushLog[i]) <= Cap - 4
    /\ shm.head # shm.tail
    /\ pc[Producer] = "idle"

\* C15: a push of a payload of Cap - 3 bytes or more is dropped whatever the
\* occupancy: dropped is incremented by 1, head, tail and the data are unchanged.
C15_OversizeAlwaysDrops ==
    [][(pushLog' # pushLog /\ Len(StartedPush) >= Cap - 3) =>
           /\ shm'.dropped = shm.dropped + 1
           /\ shm'.head = shm.head
           /\ shm'.tail = shm.tail
           /\ shm'.data = shm.data
           /\ pc'[Producer] = "idle"
      ]_vars

\* oversize payloads were dropped on the empty ring and on an occupied ring
C15_Witness ==
    /\ Len(pushLog) = 3
    /\ Len(pushLog[1]) = Cap - 3
    /\ Len(pushLog[2]) = 1
    /\ Len(pushLog[3]) = Cap - 2
    /\ shm.dropped = 2
    /\ shm.head = 5
    /\ shm.tail = 0

\* C16: the dropped counter of a mapped ring never decreases, whatever the operation:
\* a push, a read, a resync, skip_all, or a re-map of the section with the same
\* capacity.
C16_DroppedMonotonic == [][shm'.dropped >= shm.dropped]_vars

\* frames were dropped, the section was re-mapped by a later load, and the header
\* with its count is one that map() preserves
C16_Witness ==
    /\ shm.dropped >= 1
    /\ loads >= 1
    /\ shm.size = kring.data_size
    /\ map(shm, kring.data_size).dropped = shm.dropped

\* C17: read_next that finds a length prefix of 0 (or above Cap - 4) at tail sets the
\* private and the header tail to the head it observed and returns none; the push
\* that follows is admitted and the next read_next returns exactly its payload.
\* Here the corrupt prefix is the frame of an empty payload: the second push can only
\* be admitted without a drop after the resync moved tail.
C17_ResyncThenRoundTrip ==
    /\ (lastRead = "resync" /\ cpc = "idle") => (uring.tail = chead /\ shm.tail = chead)
    /\ ( /\ Len(pushLog) = 2
         /\ pushLog[1] = <<>>
         /\ Len(pushLog[2]) \in 1..(Cap - 4)
         /\ shm.dropped = 0 ) =>
           /\ cpc # "panicked"
           /\ readLog \in {<<>>, <<pushLog[2]>>}
           /\ drained => readLog = <<pushLog[2]>>

\* a is b with some elements left out: every element of a is matched by a distinct
\* element of b, in the same order
RECURSIVE IsSubseq(_, _)
IsSubseq(a, b) ==
    IF a = <<>> THEN TRUE
    ELSE IF b = <<>> THEN FALSE
    ELSE IF Head(a) = Head(b) THEN IsSubseq(Tail(a), Tail(b))
    ELSE IsSubseq(a, Tail(b))

\* C18: every payload returned by read_next is a payload that was pushed, and no
\* pushed frame is returned twice: the payloads read are the payloads pushed with
\* some left out, whatever the interleaving of pushes, reads, resyncs and skip_all.
C18_AtMostOnce == IsSubseq(readLog, pushLog)

\* C19: a SEND_HOOK_EVENT request with input acquires the rundown protection of the
\* device, calls push_bytes once with the input, releases and completes with success
\* and Information = input length, also when the frame was dropped; on a completed
\* rundown it completes with device-not-ready and leaves the ring alone; the number of
\* holders is the number of requests between their acquire and their release, and no
\* request stops at its release.
C19_IngestAcquirePushRelease ==
    /\ [](/\ ~rundown.completed =>
                rundown.count = Cardinality({t \in Threads : loc[t].origin = "hook"})
          /\ \A t \in Threads :
                /\ (irp[t].status = "pending") =
                      (pc[t] \in {"write", "payload", "publish", "release"})
                /\ (irp[t].status = "pending") = (loc[t].origin = "hook")
                /\ InPush(t) => (loc[t].payload \in HookInputs
                                  /\ Len(loc[t].payload) = irp[t].len)
                /\ irp[t].status = STATUS_SUCCESS => irp[t].info = irp[t].len
                /\ irp[t].status = "STATUS_DEVICE_NOT_READY" => irp[t].info = 0
                /\ pc[t] = "release" => drv = "loaded")
    /\ [][\A t \in Threads :
            /\ (irp[t].status # "pending" /\ irp'[t].status = "pending") =>
                  /\ ~rundown.completed
                  /\ irp'[t].len > 0
                  /\ rundown'.count = rundown.count + 1
                  /\ IF 4 + irp'[t].len > Cap - ((shm.head + Cap - shm.tail) % Cap)
                     THEN /\ pc'[t] = "release"
                          /\ shm' = [shm EXCEPT !.dropped = shm.dropped + 1]
                     ELSE /\ pc'[t] = "write"
                          /\ shm' = shm
            /\ (pc[t] = "idle" /\ irp'[t] # irp[t] /\ irp'[t].len > 0 /\ rundown.completed) =>
                  /\ irp'[t].status = "STATUS_DEVICE_NOT_READY"
                  /\ pc'[t] = "idle"
                  /\ shm' = shm
                  /\ rundown' = rundown
            /\ (pc[t] = "write" /\ pc'[t] # "write") =>
                  /\ pc'[t] = "payload"
                  /\ \A i \in 0..3 : shm'.data[(loc[t].head + i) % Cap] =
                                         IF i = 0 THEN irp[t].len ELSE 0
                  /\ rundown' = rundown
            /\ (pc[t] = "payload" /\ pc'[t] # "payload") =>
                  /\ pc'[t] = "publish"
                  /\ \A i \in 1..irp[t].len :
                        shm'.data[(loc[t].head + 4 + i - 1) % Cap] = loc[t].payload[i]
                  /\ rundown' = rundown
            /\ (pc[t] = "publish" /\ pc'[t] # "publish") =>
                  /\ pc'[t] = "release"
                  /\ shm'.head = (loc[t].head + 4 + irp[t].len) % Cap
                  /\ rundown' = rundown
            /\ (pc[t] = "release" /\ pc'[t] # "release") =>
                  /\ pc'[t] = "idle"
                  /\ irp'[t].status = STATUS_SUCCESS
                  /\ irp'[t].info = irp[t].len
                  /\ rundown'.count = rundown.count - 1
                  /\ shm' = shm
      ]_vars

InStoredMask(f) == cb_mask[f]

\* C20: an UNREGISTER_CALLBACKS request at passive level unregisters exactly the
\* families of the stored mask, in the order registry, image-load, process, and leaves
\* the device, the extension and the ring mapping in place; at any other level it
\* completes with invalid-device-state and unregisters nothing.
C20_PrepareUnloadByMask ==
    [][\A t \in Threads :
          LET starts   == /\ pc[t] = "idle"
                          /\ irp'[t] # irp[t]
                          /\ irp'[t].code = "UNREGISTER_CALLBACKS"
              goes_on  == pc[t] \in {"unreg_img", "unreg_proc"} /\ pc'[t] # pc[t]
              stored   == {f \in {"reg", "img", "proc"} : cb_mask[f]}
          IN  /\ (starts \/ goes_on) =>
                    /\ device' = device
                    /\ devExt' = devExt
                    /\ symlink' = symlink
                    /\ kring' = kring
                    /\ shm' = shm
                    /\ RING_PTR' = RING_PTR
                    /\ cb_mask' = cb_mask
                    /\ osReg' \subseteq osReg
                    /\ (osReg \ osReg') \subseteq stored
              /\ (starts /\ irp'[t].status # "pending") =>
                    /\ irp'[t].status = "STATUS_INVALID_DEVICE_STATE"
                    /\ osReg' = osReg
                    /\ unregLog'[t] = <<>>
              /\ (goes_on /\ pc'[t] = "idle") =>
                    /\ irp'[t].status = STATUS_SUCCESS
                    /\ FamsOf(unregLog'[t]) = SelectSeq(<<"reg", "img", "proc">>, InStoredMask)
                    /\ \A i \in 1..Len(unregLog'[t]) : unregLog'[t][i].op = "unregister"
                    /\ osReg' \cap stored = {}
      ]_vars

\* a request at another level was refused while both families stayed registered, and
\* a request at passive level then unregistered image-load before process
C20_Witness ==
    /\ prepared
    /\ osReg = {}
    /\ device
    /\ kring.base
    /\ \E t, u \in Threads :
          /\ irp[t].status = "STATUS_INVALID_DEVICE_STATE"
          /\ irp[u].code = "UNREGISTER_CALLBACKS"
          /\ irp[u].status = STATUS_SUCCESS
          /\ unregLog[u] = <<Call("unregister", "img", STATUS_SUCCESS),
                              Call("unregister", "proc", STATUS_SUCCESS)>>

\* C21: a device-control request whose code is none of 0x222004, 0x222008, 0x22200C
\* (the CTL_CODE values of functions 0x801, 0x802, 0x803) completes with
\* invalid-parameter and changes nothing of the driver; create and close requests
\* complete with success and change nothing either.
C21_UnknownCodesRejected ==
    [][\A t \in Threads :
          (pc[t] = "idle" /\ irp'[t] # irp[t]) =>
              /\ (irp'[t].code \notin {"CREATE", "CLOSE"}
                    /\ irp'[t].ioctl \notin {2236420, 2236424, 2236428}) =>
                       /\ irp'[t].status = "STATUS_INVALID_PARAMETER"
                       /\ irp'[t].info = 0
                       /\ UNCHANGED requestRest
              /\ irp'[t].code \in {"CREATE", "CLOSE"} =>
                       /\ irp'[t].status = STATUS_SUCCESS
                       /\ UNCHANGED requestRest
              /\ irp'[t].ioctl = 2236420 => irp'[t].code = "GET_SECTION_HANDLE"
              /\ irp'[t].ioctl = 2236424 => irp'[t].code = "SEND_HOOK_EVENT"
              /\ irp'[t].ioctl = 2236428 => irp'[t].code = "UNREGISTER_CALLBACKS"
      ]_vars

\* the bare function number 0x801 was rejected on one thread and a close succeeded on
\* the other, with a frame in the ring and both families still registered
C21_Witness ==
    /\ shm.head # 0
    /\ osReg = {"proc", "img"}
    /\ \E t, u \in Threads :
          /\ irp[t].code = "UNSUPPORTED"
          /\ irp[t].ioctl = 2049
          /\ irp[t].status = "STATUS_INVALID_PARAMETER"
          /\ irp[u].code = "CLOSE"
          /\ irp[u].status = STATUS_SUCCESS

\* hook i of live is installed: Hook::new has returned it and uninstall_all has not
\* reached it
Installed(i) == i \in 1..Len(live) /\ (mgr = "uninstalling" => i > hpos)

\* C22: the step of uninstall_all that removes a hook leaves the first PATCH_LEN bytes
\* of its target equal to the bytes saved by Hook::new, which are the bytes the target
\* had before the install, and gives the target's page the protection it had before
\* the install.
C22_RemoveRestores ==
    [][(mgr \in {"installed", "panicked", "uninstalling"} /\ hpos' = hpos + 1) =>
          LET h   == live[hpos + 1]
              pre == preinstall[hpos + 1]
          IN  /\ SubSeq(tmem'[h.target], 1, 13) = h.saved
              /\ h.saved = pre.bytes
              /\ tmem'[h.target] = env.code[h.target]
              /\ prot'[PageOf(h.target)] = pre.prot
      ]_vars

\* two hooks of one page were installed and the first has been removed: its target has
\* the loaded code again and the page is read-execute as before the install
C22_Witness ==
    /\ mgr = "uninstalling"
    /\ hpos = 1
    /\ Len(live) >= 2
    /\ PageOf(live[1].target) = PageOf(live[2].target)
    /\ tmem[live[1].target] = env.code[live[1].target]
    /\ prot[PageOf(live[1].target)] = "RX"
    /\ preinstall[2].prot = "RWX"

\* the four bytes after the first B8 among the first n bytes of code, or four zero
\* bytes when there is none
ImmAfterFirstB8(code, n) ==
    LET hits == {i \in 1..n : code[i] = 184}
    IN  IF hits = {} THEN <<0, 0, 0, 0>>
        ELSE LET i == CHOOSE h \in hits : \A o \in hits : h <= o
             IN  SubSeq(code, i + 1, i + 4)

\* hook i: the target starts with 49 BA <detour64> 41 FF E2 and the gateway is
\* allocated and holds 4C 8B D1 B8 <imm> 0F 05 C3, imm being the four bytes after the
\* first B8 among the first n bytes of the unpatched target
HookHolds(i, n) ==
    LET h == live[i]
        d == h.detour
    IN  /\ SubSeq(tmem[h.target], 1, 13) =
             <<73, 186, d % 256, (d \div 256) % 256, (d \div 65536) % 256,
               (d \div 16777216) % 256, 0, 0, 0, 0, 65, 255, 226>>
        /\ ~gw[h.gateway].freed
        /\ gw[h.gateway].bytes =
             <<76, 139, 209, 184>> \o ImmAfterFirstB8(env.code[h.target], n) \o <<15, 5, 195>>

\* C23 as stated: for every installed hook the target starts with the jump to the detour
\* and the gateway's immediate is the u32 after the first B8 byte among the first 20
\* bytes of the unpatched target, or 0 when there is none.
C23_GatewayFromFirst20 == \A i \in 1..Len(live) : Installed(i) => HookHolds(i, 20)

\* C23, amended: for every installed hook the target starts with the jump to the detour
\* and the gateway's immediate is the u32 after the first B8 byte among the first 16
\* bytes of the unpatched target (a B8 whose four following bytes lie within the first
\* 20), or 0 when there is none.
C23_GatewayFromFirst16 == \A i \in 1..Len(live) : Installed(i) => HookHolds(i, 16)

\* a hook is installed on a target whose only B8 is at offset 15, and its gateway
\* carries the four bytes that follow it
C23_Witness ==
    \E i \in 1..Len(live) :
        /\ Installed(i)
        /\ env.code[live[i].target] = EdgeStub
        /\ gw[live[i].gateway].bytes = <<76, 139, 209, 184, 9, 1, 0, 0, 15, 5, 195>>
        /\ SubSeq(tmem[live[i].target], 1, 2) = <<73, 186>>

\* C24: when install_all fails at an entry it ends with an error value, no hook is
\* recorded as live, no gateway stays allocated and every target has the code it was
\* loaded with.
C24_FailedInstallRollsBack ==
    mgr \in {"panicked", "failed"} =>
        /\ mgr = "failed"
        /\ live = <<>>
        /\ \A g \in DOMAIN gw : gw[g].freed
        /\ tmem = env.code

\* number of frames of thread t that hold a CallGuard
LiveScopes(t) == Cardinality({i \in DOMAIN frames[t] : frames[t][i] = "scope"})

\* C25: a thread holds at most one CallGuard and its flag is set exactly while it
\* holds one; enter returns a scope only when the flag was clear, and then sets it;
\* enter with the flag set returns none and leaves it set; dropping the scope clears
\* the flag; and enter and drop on one thread leave the other threads' flags alone and
\* succeed whatever those flags are.
C25_OneScopePerThread ==
    /\ [](\A t \in HThreads : LiveScopes(t) <= 1 /\ (tls[t] <=> LiveScopes(t) = 1))
    /\ [][\A t \in HThreads :
            /\ Len(frames'[t]) = Len(frames[t]) + 1 =>
                 LET ret == frames'[t][Len(frames'[t])]
                 IN  /\ ret = "scope" => ~tls[t] /\ tls'[t]
                     /\ tls[t] => ret = "none" /\ tls'[t]
                     /\ (~tls[t] /\ env.tlsOk) => ret = "scope"
                     /\ \A u \in HThreads \ {t} : tls'[u] = tls[u]
            /\ Len(frames'[t]) = Len(frames[t]) - 1 =>
                 /\ frames[t][Len(frames[t])] = "scope" => ~tls'[t]
                 /\ frames[t][Len(frames[t])] = "none" => tls'[t] = tls[t]
                 /\ \A u \in HThreads \ {t} : tls'[u] = tls[u]
         ]_vars

\* one thread holds a guard and was refused a nested one while the other thread, with
\* its own flag clear, got a guard of its own
C25_Witness ==
    /\ frames["h1"] = <<"scope", "none">>
    /\ frames["h2"] = <<"scope">>
    /\ tls["h1"] /\ tls["h2"]

\* C28: fire_once spawns the cleanup routine at most once in the life of the process.
C28_CleanupAtMostOnce ==
    /\ Len(cleaner) <= 1
    /\ (cleaner # <<>> => fired)

\* two console events, a trigger() call and the drop have all happened and the routine
\* has run, once
C28_Witness ==
    /\ events >= 2
    /\ handlers = 0
    /\ triggers >= 1
    /\ mainPc = "exited"
    /\ cleaner = <<"done">>

\* C26: map resets head, tail and dropped to 0 and writes size exactly when the size
\* field of the header differs from the ring's capacity; when it equals the capacity
\* the whole header, and the data region, are left as they were.
C26_MapResetsOnSizeMismatch ==
    [][(~kring.base /\ kring'.base) =>
          IF shm.size # kring.data_size
          THEN /\ shm'.head = 0 /\ shm'.tail = 0 /\ shm'.dropped = 0
               /\ shm'.size = kring.data_size
               /\ shm'.data = shm.data
          ELSE shm' = shm
      ]_vars

\* the ring was mapped, pushed to, unmapped and mapped again: the second map found the
\* capacity in the header and kept the frame and the drop count
C26_Witness ==
    /\ kring.base
    /\ loads = 2
    /\ pushLog # <<>>
    /\ shm.head # shm.tail
    /\ shm.dropped > 0
    /\ shm.size = Cap

\* C27: push_bytes on a ring whose base is null returns without touching the SECTION:
\* header (dropped included) and data stay as they are, and no write is started.
C27_NullBasePushIsNoOp ==
    [][(~kring.base /\ pushLog' # pushLog) =>
          /\ shm' = shm
          /\ pc' = pc
          /\ kring' = kring
      ]_vars

\* a payload that would not fit was pushed on a ring that was never mapped, over a
\* SECTION with a stale header: nothing was counted
C27_Witness ==
    /\ ~kring.base
    /\ loads = 0
    /\ pushLog # <<>>
    /\ Len(pushLog[1]) > Cap - 4
    /\ shm.size = Cap
    /\ shm.dropped = 0

\* C29: a driver_entry that returns a failure leaves nothing behind: no callback family
\* is registered, RING_PTR and RUNDOWN_PTR are null, the link and the device do not
\* exist and the ring is not mapped.
C29_FailedEntryLeavesNothing ==
    [][(\/ loads' = loads + 1 /\ drv' = "unloaded"
        \/ drv = "entry_rollback" /\ drv' # drv) =>
          /\ entryRet' \notin {"none", "pending", STATUS_SUCCESS}
          /\ osReg' = {}
          /\ RING_PTR' = NULL
          /\ RUNDOWN_PTR' = NULL
          /\ ~symlink'
          /\ ~device'
          /\ ~kring'.base
          /\ drv' = "unloaded"
      ]_vars

\* driver_entry failed at the image-load registration after the device, the ring, the
\* link and the process family were set up, a process notification published a frame
\* in between, and all of them are gone
C29_Witness ==
    /\ loads = 1
    /\ shm.head > 0
    /\ entryRet \notin {"none", "pending", STATUS_SUCCESS}
    /\ entryRet = regRet
    /\ \E i \in 1..Len(regLog) : regLog[i] = Call("unregister", "proc", STATUS_SUCCESS)
    /\ devExt = "rolledback"
    /\ ~device /\ ~symlink /\ ~kring.base
    /\ RING_PTR = NULL /\ RUNDOWN_PTR = NULL /\ osReg = {}
    /\ shm.size = Cap

\* C30: the tail of the header equals the consumer's private tail after every consumer
\* operation that returns (read_next with a frame, the resync of read_next, skip_all);
\* a consumer step changes nothing of the SECTION but tail; a producer step never
\* changes tail.
C30_TailIsTheConsumers ==
    /\ [](cpc = "idle" => shm.tail = uring.tail)
    /\ [][/\ (cpc' # cpc \/ uring' # uring \/ lastRead' # lastRead \/ readLog' # readLog) =>
               /\ shm'.head = shm.head
               /\ shm'.dropped = shm.dropped
               /\ shm'.size = shm.size
               /\ shm'.data = shm.data
               /\ lastRead' \in {"frame", "resync", "skipped"} => shm'.tail = uring'.tail
          /\ (pc' # pc \/ pushLog' # pushLog) => shm'.tail = shm.tail
         ]_vars

\* a frame was read and the backlog skipped with a frame dropped in between: the two
\* tails agree away from 0
C30_Witness ==
    /\ readLog # <<>>
    /\ lastRead = "skipped"
    /\ shm.dropped > 0
    /\ shm.tail = uring.tail
    /\ shm.tail # 0

\* C31: every acquire made through enter() is released by the drop of its Scope, so
\* when no thread holds a Scope the in-flight count of the rundown object and
\* active_count() are both zero.
C31_ScopesBalance ==
    (\A t \in Workers : scope[t] = "none") => (rundown.count = 0 /\ ACTIVE = 0)

\* C32: once begin_unload has completed the barrier, if every holder leaves its
\* region the object drains (no holder left) and the wait_for_zero that follows
\* returns.
C32_WaitReturns ==
    (tdpc \in {"completed", "waiting"})
        ~> (tdpc = "drained" /\ rundown.count = 0 /\ rundown.completed)

\* C33: registry_callback returns STATUS_SUCCESS for every class and input; it pushes
\* at most one event, and only for RegNtPreSetValueKey with a key path the filter
\* keeps; for any other class it neither reads the payload nor pushes.
C33_RegistryCallbackNeverBlocks ==
    cbres.kind = "reg" =>
        /\ cbres.status = STATUS_SUCCESS
        /\ Len(cbres.pushes) <= 1
        /\ Len(cbres.pushes) = 1 =>
              /\ note.class = RegNtPreSetValueKey
              /\ should_emit_registry_setvalue(cbres.pushes[1].key_path, note.value_name)
              /\ cbres.pushes[1].key_path = (IF note.name_ok THEN note.path ELSE RootUnknown)
        /\ note.class # RegNtPreSetValueKey =>
              (cbres.pushes = <<>> /\ ~cbres.read_payload)

C33_Witness ==
    /\ cbres.kind = "reg"
    /\ note.class = RegNtPreSetValueKey
    /\ note.path = PrefixServices \o TailPolicies
    /\ Len(cbres.pushes) = 1
    /\ cbres.pushes[1].new_value = <<1, 0>>

\* C34: process_notify pushes at most one event; none on exit (null create-info), when
\* pid < 100 or when the image path is empty; otherwise exactly one event carrying
\* pid, parent pid, image path and command line.
C34_ProcessNotifyOneEvent ==
    cbres.kind = "proc" =>
        IF note.exit \/ note.pid < 100 \/ note.image_path = ""
        THEN cbres.pushes = <<>>
        ELSE cbres.pushes = <<[pid |-> note.pid, ppid |-> note.ppid,
                               image_path |-> note.image_path, cmdline |-> note.cmdline]>>

C34_Witness ==
    /\ cbres.kind = "proc"
    /\ ~note.exit
    /\ note.pid = 100
    /\ Len(cbres.pushes) = 1
    /\ cbres.pushes[1].cmdline = "a.exe -x"

\* the persistence prefixes the filter is documented to keep: Run, RunOnce, Services,
\* IFEO, AppInit, Winlogon, LSA, Schedule task cache
NamedPersistencePrefixes ==
    {PrefixRun, PrefixRunOnce, PrefixServices, PrefixIfeo, PrefixAppInit, PrefixWinlogon,
     PrefixLsa, PrefixTaskCache}

\* C35: should_emit_registry_setvalue returns false for every key path that contains a
\* noise component (\classes\, \muicache\, \appcompatflags\, \installer\products\) and
\* is neither under the vendor subtree, nor under a named persistence prefix, nor a
\* CurrentVersion\Run* key; a per-user ...\MuiCache\ path is dropped.
C35_NoisePathsDropped ==
    (/\ cbres.kind = "filter"
     /\ is_registry_noise_path(note.path)
     /\ ~starts_with_ci(note.path, VENDOR_KEY_PREFIX)
     /\ \A p \in NamedPersistencePrefixes : ~starts_with_ci(note.path, p)
     /\ ~contains_ci(note.path, NeedleRun))
        => ~cbres.emit

\* bytes taken by the first n frames of the pushes q
RECURSIVE FramesLen(_, _)
FramesLen(q, n) == IF n = 0 THEN 0 ELSE FramesLen(q, n - 1) + 4 + Len(q[n])

\* offsets of the data region held by the frames that were published and not yet
\* consumed, when every push so far was admitted and the consumer has returned the
\* first Len(readLog) of them: frame i starts where the frames before it end
UnreadOffsets ==
    LET published == Len(pushLog) - 1
    IN  UNION {FrameOffsets(FramesLen(pushLog, i - 1) % Cap, pushLog[i]) :
                  i \in (Len(readLog) + 1)..published}

\* C36: a push writes only offsets of the data region outside the frames that are
\* published (head advanced past them) and not yet consumed (tail not advanced past
\* them). Stated for the histories in which every push was admitted and the consumer
\* has returned the frames before its tail in order.
C36_PushSparesUnreadFrames ==
    [][( /\ pc[Producer] \in {"write", "payload"}
         /\ pc'[Producer] # pc[Producer]
         /\ shm.dropped = 0
         /\ \A i \in 1..Len(pushLog) : Len(pushLog[i]) \in 1..(Cap - 4)
         /\ IsPrefix(readLog, pushLog)
         /\ cpc = "idle"
         /\ uring.tail = FramesLen(pushLog, Len(readLog)) % Cap
         /\ shm.tail = uring.tail ) =>
            \A a \in UnreadOffsets : shm'.data[a] = shm.data[a]
      ]_vars

\* C37: every frame whose publication advances head carries a length prefix L with
\* 1 <= L <= Cap - 4, whatever payload push_bytes accepted (the empty one included),
\* so read_next never classifies a frame the producer published as corrupt.
C37_PublishedPrefixIsValid ==
    [][(pc[Producer] = "publish" /\ pc'[Producer] = "idle") =>
          LET h == loc[Producer].head
              L == from_le_bytes([i \in 1..4 |-> shm.data[(h + i - 1) % Cap]])
          IN  /\ L >= 1
              /\ L <= max_len(Cap)
      ]_vars

\* C38: after install_all has installed every entry of the list and uninstall_all has
\* returned, every target has the bytes it had before install_all, the live list is
\* empty, and no target starts with the jump to a detour whose gateway has been freed.
C38_InstallUninstallRoundTrip ==
    (mgr = "uninstalled" /\ Len(preinstall) = Len(hspec)) =>
        /\ \A f \in Funcs : SubSeq(tmem[f], 1, PATCH_LEN) = SubSeq(env.code[f], 1, PATCH_LEN)
        /\ live = <<>>
        /\ \A i \in 1..Len(hspec) :
              SubSeq(tmem[hspec[i].func], 1, PATCH_LEN) = patch_bytes(hspec[i].detour)
                  => ~gw[orig[i]].freed

\* C39: at most one opened handle is ever stored in DEVICE_HANDLE_RAW and it is never
\* replaced; every caller that succeeds returns the stored handle, which is open;
\* every handle opened by a thread that lost the race is closed, so the only open
\* handles are the stored one and those of threads still before their
\* compare_exchange.
C39_OneDeviceHandle ==
    /\ [](/\ DEVICE_HANDLE_RAW # NullHandle => dhandles[DEVICE_HANDLE_RAW] = "open"
          /\ \A t \in Callers :
                gret[t].ok =>
                    (gret[t].handle = DEVICE_HANDLE_RAW /\ dhandles[gret[t].handle] = "open")
          /\ \A h \in DOMAIN dhandles :
                dhandles[h] = "open" =>
                    \/ h = DEVICE_HANDLE_RAW
                    \/ \E t \in Callers : gpc[t] = [at |-> "cas", handle |-> h])
    /\ [][DEVICE_HANDLE_RAW # NullHandle => DEVICE_HANDLE_RAW' = DEVICE_HANDLE_RAW]_vars

\* two threads opened the device; the loser closed its handle and returned the winner's
C39_Witness ==
    /\ DEVICE_HANDLE_RAW # NullHandle
    /\ \E h \in DOMAIN dhandles : dhandles[h] = "closed"
    /\ \E t, u \in Callers :
          /\ t # u
          /\ gpc[t].at = "idle" /\ gpc[u].at = "idle"
          /\ gret[t] = [ok |-> TRUE, handle |-> DEVICE_HANDLE_RAW]
          /\ gret[u] = gret[t]

\* position of the last update of path q in the log, 0 when it was never updated
LastUpdate(log, q) ==
    LET at == {i \in 1..Len(log) : log[i] = q}
    IN  IF at = {} THEN 0 ELSE CHOOSE i \in at : \A j \in at : j <= i

\* C40: the cache holds at most MAX_ENTRIES paths; the paths of the eviction queue are
\* the keys of the map, each once; is_unchanged is true exactly when the stored stamp
\* equals the current (mtime, size); and the entry evicted for a new path is the least
\* recently updated one.
C40_BoundedLruCache ==
    /\ [](/\ Cardinality(DOMAIN cache.map) <= MAX_ENTRIES
          /\ SeqToSet(cache.order) = DOMAIN cache.map
          /\ Len(cache.order) = Cardinality(DOMAIN cache.map))
    /\ [][lastScan' # lastScan =>
            /\ lastScan'.unchanged =
                  (/\ lastScan'.path \in DOMAIN cache.map
                   /\ cache.map[lastScan'.path] = stamp(files[lastScan'.path]))
            /\ lastScan'.evicted # "" =>
                  \A q \in DOMAIN cache.map :
                      LastUpdate(updLog, lastScan'.evicted) <= LastUpdate(updLog, q)
       ]_vars

====
